---- MODULE Spec2Model ----
(***************************************************************************)
(* Model of the Notebook-Translate extension: the profile manager          *)
(* (profileManager.ts), the startup migration (migration.ts), and the      *)
(* Manage Profiles flows (commands/manageProfiles.ts, extension.ts).       *)
(*                                                                         *)
(* The durable settings (settings.json) and the WorkspaceConfiguration      *)
(* snapshot held in ProfileManager.config are kept apart: config.get reads *)
(* the snapshot, config.update writes the durable settings, and only       *)
(* refresh() re-reads the snapshot.  DEFAULT_PROFILES is the module-level  *)
(* array; getProfiles() returns it by reference when the snapshot's list   *)
(* is empty, so push / index assignment through that reference mutate it.  *)
(***************************************************************************)
EXTENDS Integers, Sequences, FiniteSets, TLC

VARIABLES
    settings,             \* durable settings: [profiles, activeProfile, oldApiKey]
    config,               \* ProfileManager.config snapshot: [profiles, activeProfile]
    previousProfileName,  \* globalState 'previousProfileName' ("" = never set)
    secrets,              \* SecretStorage, by profile name
    DEFAULT_PROFILES,     \* the module-level placeholder array
    written,              \* the program has written the durable profile list
    phase,                \* position of activate()
    mig,                  \* the un-awaited migrateLegacyKeys() promise
    flow,                 \* the Manage Profiles command in progress
    ops,                  \* calls and commands started in this session
    last,                 \* the last profile-manager call made directly: arguments, result, pre-state
    cells,                \* the texts of the notebook's markdown cells, in order
    workspaceState,       \* workspaceState 'translation_cache_v1': hash -> translation
    cache,                \* TranslationCache.cache of the instance in use
    run,                  \* the Translate Notebook command: position, counters, token
    cop,                  \* the last operation on the cache: [op, text, value]
    now,                  \* Date.now(), in milliseconds
    baidu,                \* the BaiduTranslator instances: limiter state and the call in progress
    call,                 \* a translate call: backend, text, response, what it returned or threw
    statusBar             \* the status bar item: the profile name and the status last passed to update()

\* the variables of the translation run and its cache
rvars == <<cells, workspaceState, cache, run, cop>>

\* the variables of the translators
tvars == <<now, baidu, call>>

vars == <<settings, config, previousProfileName, secrets, DEFAULT_PROFILES,
          written, phase, mig, flow, ops, last, cells, workspaceState, cache, run, cop,
          now, baidu, call, statusBar>>

----------------------------------------------------------------------------
(* Bounds and value sets                                                   *)

\* calls and commands started in one session of the extension host
MaxOps == 3

\* longest profile list found in settings.json at startup
MaxInitProfiles == 2

Absent == "<absent>"      \* a field that is not present / undefined
Null == "<null>"          \* rollbackToPrevious(): null

MockName == "Mock"                  \* DEFAULT_PROFILES[0].name, 'Mock (...)'
MigratedName == "Migrated OpenAI"   \* migration.ts: migratedProfile.name

\* names a user gives to profiles, and the providers chosen with each
UserNames == {"A", "B", "C"}

AllNames == UserNames \cup {MockName, MigratedName}

ProviderChoices(n) ==
    CASE n = "A" -> {"openai"}
      [] n = "B" -> {"baidu"}
      [] OTHER -> {"ollama"}

LegacyKey == "k0"   \* a secret found in plain text in settings.json
NewKey == "k1"      \* a secret typed into a wizard or passed to setApiKey

Profile(n, p, a, s) == [name |-> n, provider |-> p, apiKey |-> a, secretKey |-> s]

\* undefined, where a profile is expected
NoProfile == Profile("", "", Absent, Absent)

\* a well-typed TranslatorProfile named n, carrying the inline secret k (or Absent)
Typed(n, p, k) ==
    CASE p = "openai" -> Profile(n, "openai", k, Absent)
      [] p = "baidu" -> Profile(n, "baidu", Absent, k)
      [] OTHER -> Profile(n, p, Absent, Absent)

NeedsKey(p) == p \in {"openai", "baidu"}

\* JS truthiness of an optional string field
Truthy(v) == v # Absent /\ v # ""

Names(ps) == {ps[i].name : i \in 1..Len(ps)}

NameSeq(ps) == [i \in 1..Len(ps) |-> ps[i].name]

HasSecretField(p) == p.apiKey # Absent \/ p.secretKey # Absent

HasSecretMaterial(p) == Truthy(p.apiKey) \/ Truthy(p.secretKey)

\* the first record named n in ps (n \in Names(ps)): Array.prototype.find
Find(ps, n) ==
    LET I == {i \in 1..Len(ps) : ps[i].name = n}
    IN ps[CHOOSE i \in I : \A j \in I : i <= j]

\* Array.prototype.filter(p => p.name !== n)
RECURSIVE FilterOut(_, _)
FilterOut(ps, n) ==
    IF ps = <<>> THEN <<>>
    ELSE IF Head(ps).name = n THEN FilterOut(Tail(ps), n)
         ELSE <<Head(ps)>> \o FilterOut(Tail(ps), n)

----------------------------------------------------------------------------
(* The world the profile manager acts on, as one record                    *)

World ==
    [settings |-> settings, config |-> config,
     previousProfileName |-> previousProfileName, secrets |-> secrets,
     DEFAULT_PROFILES |-> DEFAULT_PROFILES, written |-> written]

Commit(w) ==
    /\ settings' = w.settings
    /\ config' = w.config
    /\ previousProfileName' = w.previousProfileName
    /\ secrets' = w.secrets
    /\ DEFAULT_PROFILES' = w.DEFAULT_PROFILES
    /\ written' = w.written

\* refresh(): this.config = getConfiguration(...)
refresh(w) ==
    [w EXCEPT !.config = [profiles |-> w.settings.profiles,
                          activeProfile |-> w.settings.activeProfile]]

\* getProfiles() returns DEFAULT_PROFILES itself when the stored list is empty
UsesDefaults(w) == Len(w.config.profiles) = 0

\* variant: without the DEFAULT_PROFILES fallback
getProfiles_Stored(w) == w.config.profiles

getProfiles(w) ==
    IF Len(w.config.profiles) > 0 THEN w.config.profiles ELSE w.DEFAULT_PROFILES

getActiveProfileName(w) == w.config.activeProfile

\* profiles[0] of an empty array is undefined
First(ps) == IF Len(ps) > 0 THEN ps[1] ELSE NoProfile

getActiveProfile(w) ==
    LET profiles == getProfiles(w)
        activeName == getActiveProfileName(w)
    IN IF activeName = "" THEN First(profiles)
       ELSE IF activeName \in Names(profiles) THEN Find(profiles, activeName)
       ELSE First(profiles)

getApiKey(w, n) == w.secrets[n]

setApiKey(w, n, k) == [w EXCEPT !.secrets[n] = k]

deleteApiKey(w, n) == [w EXCEPT !.secrets[n] = Absent]

\* variant: nothing is stripped
stripKeys_None(p) == p

stripKeys(p) ==
    IF p.provider = "openai" THEN [p EXCEPT !.apiKey = Absent]
    ELSE IF p.provider = "baidu" THEN [p EXCEPT !.secretKey = Absent]
    ELSE p

\* variant: the previous profile is never recorded
setActiveProfile_NoMarker(w, name) ==
    refresh([w EXCEPT !.settings.activeProfile = name])

\* variant: the current pointer is recorded on every call
setActiveProfile_AlwaysRecord(w, name) ==
    refresh([w EXCEPT !.previousProfileName = getActiveProfileName(w),
                      !.settings.activeProfile = name])

setActiveProfile(w, name) ==
    LET current == getActiveProfileName(w)
        w1 == IF current # "" /\ current # name
              THEN [w EXCEPT !.previousProfileName = current]
              ELSE w
        w2 == [w1 EXCEPT !.settings.activeProfile = name]
    IN refresh(w2)

\* variant: the marker is ignored
rollbackToPrevious_FirstOnly(w) ==
    LET profiles == getProfiles(w)
    IN IF Len(profiles) > 0 /\ profiles[1].name # getActiveProfileName(w)
       THEN [w |-> setActiveProfile(w, profiles[1].name), result |-> profiles[1].name]
       ELSE [w |-> w, result |-> Null]

\* variant: the first profile is activated and returned even when it is active already
rollbackToPrevious_AlwaysFirst(w) ==
    LET previous == w.previousProfileName
        profiles == getProfiles(w)
    IN IF previous # "" /\ previous \in Names(profiles)
       THEN [w |-> setActiveProfile(w, previous), result |-> previous]
       ELSE IF Len(profiles) > 0
       THEN [w |-> setActiveProfile(w, profiles[1].name), result |-> profiles[1].name]
       ELSE [w |-> w, result |-> Null]

\* variant: the rollback moves the pointer without recording the profile it leaves
rollbackToPrevious_NoRecord(w) ==
    LET previous == w.previousProfileName
        profiles == getProfiles(w)
    IN IF previous # "" /\ previous \in Names(profiles)
       THEN [w |-> setActiveProfile_NoMarker(w, previous), result |-> previous]
       ELSE IF Len(profiles) > 0 /\ profiles[1].name # getActiveProfileName(w)
       THEN [w |-> setActiveProfile_NoMarker(w, profiles[1].name),
             result |-> profiles[1].name]
       ELSE [w |-> w, result |-> Null]

\* result: the name rolled back to, or Null
rollbackToPrevious(w) ==
    LET previous == w.previousProfileName
        profiles == getProfiles(w)
    IN IF previous # "" /\ previous \in Names(profiles)
       THEN [w |-> setActiveProfile(w, previous), result |-> previous]
       ELSE IF Len(profiles) > 0 /\ profiles[1].name # getActiveProfileName(w)
       THEN [w |-> setActiveProfile(w, profiles[1].name), result |-> profiles[1].name]
       ELSE [w |-> w, result |-> Null]

\* variant: no check for a profile of the same name
addProfile_NoCheck(w, profile) ==
    LET profiles == getProfiles(w)
        pushed == Append(profiles, stripKeys(profile))
        w1 == [w EXCEPT !.DEFAULT_PROFILES = IF UsesDefaults(w) THEN pushed ELSE @,
                        !.settings.profiles = pushed,
                        !.written = TRUE]
    IN [ok |-> TRUE, w |-> refresh(w1)]

\* ok = FALSE: the call threw and changed nothing
addProfile(w, profile) ==
    LET profiles == getProfiles(w)
        pushed == Append(profiles, stripKeys(profile))
        w1 == [w EXCEPT !.DEFAULT_PROFILES = IF UsesDefaults(w) THEN pushed ELSE @,
                        !.settings.profiles = pushed,
                        !.written = TRUE]
    IN IF profile.name \in Names(profiles)
       THEN [ok |-> FALSE, w |-> w]
       ELSE [ok |-> TRUE, w |-> refresh(w1)]

\* the Partial<TranslatorProfile> arguments of updateProfile: fields to overwrite
Merge(p, updates) ==
    [f \in DOMAIN p |-> IF f \in DOMAIN updates THEN updates[f] ELSE p[f]]

updateProfile(w, name, updates) ==
    LET profiles == getProfiles(w)
        I == {i \in 1..Len(profiles) : profiles[i].name = name}
        index == CHOOSE i \in I : \A j \in I : i <= j
        updatedProfile == stripKeys(Merge(profiles[index], updates))
        assigned == [profiles EXCEPT ![index] = updatedProfile]
        w1 == [w EXCEPT !.DEFAULT_PROFILES = IF UsesDefaults(w) THEN assigned ELSE @,
                        !.settings.profiles = assigned,
                        !.written = TRUE]
    IN IF I = {}
       THEN [ok |-> FALSE, w |-> w]
       ELSE [ok |-> TRUE, w |-> refresh(w1)]

deleteProfile(w, name) ==
    LET profiles == getProfiles(w)
        filtered == FilterOut(profiles, name)
        w1 == [w EXCEPT !.settings.profiles = filtered, !.written = TRUE]
        w2 == deleteApiKey(w1, name)
        w3 == IF getActiveProfileName(w2) = name /\ Len(filtered) > 0
              THEN setActiveProfile(w2, filtered[1].name)
              ELSE w2
    IN IF Len(filtered) = Len(profiles)
       THEN [ok |-> FALSE, w |-> w]
       ELSE [ok |-> TRUE, w |-> refresh(w3)]

----------------------------------------------------------------------------
(* Startup: activate() = migrateSettings(); new ProfileManager(context),   *)
(* whose constructor starts migrateLegacyKeys() without awaiting it;       *)
(* validateActiveProfile()                                                 *)

\* migration.ts migrateSettings(), on the durable settings
migrateSettings(w) ==
    LET oldApiKey == w.settings.oldApiKey
        migratedProfile == Profile(MigratedName, "openai", oldApiKey, Absent)
    IN IF Len(w.settings.profiles) > 0 THEN w
       ELSE IF ~Truthy(oldApiKey) THEN w
       ELSE [w EXCEPT !.settings = [profiles |-> <<migratedProfile>>,
                                    activeProfile |-> migratedProfile.name,
                                    oldApiKey |-> Absent],
                      !.written = TRUE]

MigIdle == [pc |-> "off", profiles |-> <<>>, i |-> 1, hasChanges |-> FALSE]

\* variant: the loop strips the inline secret without storing it
migrateOne_NotStored(w, m) ==
    LET profile == m.profiles[m.i]
        a == Truthy(profile.apiKey)
        s == Truthy(profile.secretKey)
        cleaned == [profile EXCEPT !.apiKey = IF a THEN Absent ELSE @,
                                   !.secretKey = IF s THEN Absent ELSE @]
    IN [w |-> w,
        m |-> [m EXCEPT !.profiles[m.i] = cleaned,
                        !.i = m.i + 1,
                        !.hasChanges = m.hasChanges \/ a \/ s]]

\* one pass of the for-loop body of migrateLegacyKeys over profile i
migrateOne(w, m) ==
    LET profile == m.profiles[m.i]
        a == Truthy(profile.apiKey)
        s == Truthy(profile.secretKey)
        w1 == IF a THEN setApiKey(w, profile.name, profile.apiKey) ELSE w
        w2 == IF s THEN setApiKey(w1, profile.name, profile.secretKey) ELSE w1
        cleaned == [profile EXCEPT !.apiKey = IF a THEN Absent ELSE @,
                                   !.secretKey = IF s THEN Absent ELSE @]
    IN [w |-> w2,
        m |-> [m EXCEPT !.profiles[m.i] = cleaned,
                        !.i = m.i + 1,
                        !.hasChanges = m.hasChanges \/ a \/ s]]

\* variant: the pointer is not validated
validateActiveProfile_Unchecked(w) == refresh(w)

\* validateActiveProfile()
validateActiveProfile(w) ==
    LET w0 == refresh(w)
        activeName == getActiveProfileName(w0)
        profiles == getProfiles(w0)
    IN IF activeName # "" /\ activeName \notin Names(profiles)
       THEN IF Len(profiles) > 0
            THEN setActiveProfile(w0, profiles[1].name)
            ELSE setActiveProfile(w0, "")
       ELSE w0

----------------------------------------------------------------------------
(* Ghost records                                                           *)

\* switched: the call before this one was setActiveProfile(to), made with the
\* pointer at the listed profile from (# to); undone: the call before this one
\* was a rollbackToPrevious() that followed such a setActiveProfile(to) and
\* returned from
NoSwitch == [to |-> "", from |-> ""]

NoCall ==
    [op |-> "none", name |-> "", arg |-> NoProfile, ok |-> TRUE, result |-> Null,
     active |-> "", previous |-> "", switched |-> NoSwitch, undone |-> NoSwitch]

Call(op, n, arg, ok, result, w) ==
    [op |-> op, name |-> n, arg |-> arg, ok |-> ok, result |-> result,
     active |-> getActiveProfileName(w), previous |-> w.previousProfileName,
     switched |-> IF /\ last.op = "setActiveProfile"
                     /\ last.active # last.name
                     /\ last.active \in Names(getProfiles(w))
                  THEN [to |-> last.name, from |-> last.active]
                  ELSE NoSwitch,
     undone |-> IF /\ last.op = "rollbackToPrevious"
                   /\ last.switched # NoSwitch
                   /\ last.result = last.switched.from
                THEN last.switched
                ELSE NoSwitch]

\* TranslatorStatusBar: what update(profileName, status) leaves on the item
update(profileName, status) == [profileName |-> profileName, status |-> status]

\* the item as the constructor leaves it: no text
NoStatus == update("", "none")

\* the name shown when there is no active profile
NoProfileLabel == "No Profile"

Flows == {1, 2}

\* during: the steps the other commands were at when this one started
FlowIdle ==
    [step |-> "idle", kind |-> "none", target |-> "", from |-> "", fromProfile |-> "",
     tested |-> NoProfile, success |-> "none", rolledBackTo |-> Null, during |-> {}]

\* a finished command's record is visible in the state it ends in only
Settle(fl) == [f \in Flows |-> IF fl[f].step = "done" THEN FlowIdle ELSE fl[f]]

Quiet == \A f \in Flows : flow[f].step \in {"idle", "done"}

\* the steps of the commands other than f that have started and not ended
OthersAt(f) == {flow[g].step : g \in Flows \ {f}} \ {"idle", "done"}

\* commands are registered when activate() has run; excl: one command at a
\* time, started after the startup migration has finished
CanStart(excl) ==
    /\ phase = "ready"
    /\ ops < MaxOps
    /\ excl => (Quiet /\ mig.pc = "done")

----------------------------------------------------------------------------
(* Texts are sequences of UTF-16 code units; hasChinese, trim,             *)
(* formatTranslation                                                       *)

\* the regular expression of hasChinese: [一-龥]
CJKFirst == 19968
CJKLast == 40869

\* what String.prototype.trim removes (the code units below 128)
WhiteSpace == {9, 10, 11, 12, 13, 32}

Hi == <<72, 105>>              \* "Hi"
NiHao == <<20320, 22909>>      \* "你好"
Rare == <<40900, 33>>          \* U+9FC4 and "!": in the block, beyond 龥
Blank == <<32, 10>>            \* " \n"
Empty == <<>>                  \* ""
Ab == <<97, 98>>               \* "ab"
Ca == <<99, 97>>               \* "ca"

\* variant: no text is recognised as Chinese
hasChinese_Never(text) == FALSE

hasChinese(text) ==
    \E i \in 1..Len(text) : text[i] >= CJKFirst /\ text[i] <= CJKLast

RECURSIVE trimStart(_)
trimStart(text) ==
    IF text # <<>> /\ Head(text) \in WhiteSpace THEN trimStart(Tail(text)) ELSE text

RECURSIVE trimEnd(_)
trimEnd(text) ==
    IF text # <<>> /\ text[Len(text)] \in WhiteSpace
    THEN trimEnd(SubSeq(text, 1, Len(text) - 1))
    ELSE text

trim(text) == trimEnd(trimStart(text))

\* "<!-- Original English:\n" and "\n-->\n\n"
CommentOpen ==
    <<60, 33, 45, 45, 32, 79, 114, 105, 103, 105, 110, 97, 108, 32,
      69, 110, 103, 108, 105, 115, 104, 58, 10>>
CommentClose == <<10, 45, 45, 62, 10, 10>>

\* variant: the translation alone, whatever the mode
formatTranslation_Replace(originalText, translatedText, mode) == translatedText

formatTranslation(originalText, translatedText, mode) ==
    IF mode = "replace" THEN translatedText
    ELSE CommentOpen \o originalText \o CommentClose \o translatedText

----------------------------------------------------------------------------
(* TranslationCache: an object from hash to translation, persisted in      *)
(* workspaceState                                                          *)

\* undefined, where a text is expected
Undefined == <<-1>>

\* if (cachedTranslation): neither undefined nor ""
TruthyText(text) == text # Undefined /\ text # <<>>

\* computeHash stands for the MD5 digest: a function of the text alone that is
\* not injective ("ab" and "ca" collide here)
RECURSIVE WeightedSum(_)
WeightedSum(text) ==
    IF text = <<>> THEN 0
    ELSE Len(text) * text[Len(text)] + WeightedSum(SubSeq(text, 1, Len(text) - 1))

computeHash(text) == WeightedSum(text) % 65536

get(c, text) ==
    IF computeHash(text) \in DOMAIN c THEN c[computeHash(text)] ELSE Undefined

\* variant: the cache keeps the latest entry only
put_Latest(c, text, translation) ==
    [h \in {computeHash(text)} |-> translation]

\* the object after this.cache[hash] = translation
put(c, text, translation) ==
    [h \in DOMAIN c \cup {computeHash(text)} |->
        IF h = computeHash(text) THEN translation ELSE c[h]]

\* the object after clear()
clear == <<>>

size(c) == Cardinality(DOMAIN c)

NoCacheOp == [op |-> "none", text |-> <<>>, value |-> <<>>]

----------------------------------------------------------------------------
(* The Translate Notebook command (translateNotebookMarkdown)              *)

\* unit: what the last step did with the unit at i; profile: the active profile
\* the command found; translator: the class of the translator built from it;
\* error: the class of the error createTranslatorFromProfile threw;
\* probe: what the last connection test returned; origin: for each text with a
\* cache entry written by a run, the profile that was active in that run;
\* calledOn: the translator the last translate call went to; loggedAs: the
\* profileName of the last stats.log; refused: edits applyEdit refused;
\* plain: cache hits whose translation has no Chinese character; prior: how
\* the run before this one ended, for a run with the MockTranslator
RunIdle ==
    [pc |-> "idle", i |-> 1, mode |-> "bilingual", cancel |-> FALSE,
     translatedCount |-> 0, skippedCount |-> 0, cachedCount |-> 0,
     translatedText |-> <<>>, n |-> 0, sent |-> 0, reported |-> 0, unit |-> "none",
     profile |-> "", translator |-> "none", error |-> "none", probe |-> "none",
     origin |-> {}, calledOn |-> "none", loggedAs |-> "",
     refused |-> 0, plain |-> 0, prior |-> "none"]

----------------------------------------------------------------------------
(* BaiduTranslator: the limiter of waitForRateLimit                        *)

\* private readonly minInterval
minInterval == 1100

\* Date.now() when the session starts: milliseconds since 1970, far more than
\* minInterval after the initial lastRequestTime of 0
StartTime == 10000

\* the BaiduTranslator instances in use
Instances == {1, 2}

\* issued: Date.now() at each request of the instance, in order
BaiduIdle ==
    [pc |-> "idle", lastRequestTime |-> 0, wake |-> 0, issued |-> <<>>]

\* variant: no wait
sleepFor_None(t, lastRequestTime) == 0

\* the delay waitForRateLimit sleeps for, 0 for none
sleepFor(t, lastRequestTime) ==
    IF t - lastRequestTime < minInterval THEN minInterval - (t - lastRequestTime) ELSE 0

----------------------------------------------------------------------------
(* cleanThinkTags and the translate methods, as functions of the response  *)

OpenTag == <<60, 116, 104, 105, 110, 107, 62>>     \* "<think>"
CloseTag == <<60, 47, 116, 104, 105, 110, 107, 62>>    \* "</think>"

\* the i flag: a letter A..Z matches as its lower-case letter
lower(c) == IF c >= 65 /\ c <= 90 THEN c + 32 ELSE c

\* pat matches text at position i, letters compared without case
MatchesAt(text, i, pat) ==
    /\ i + Len(pat) - 1 <= Len(text)
    /\ \A k \in 1..Len(pat) : lower(text[i + k - 1]) = pat[k]

\* a match of <think>[\s\S]*?<\/think> starts at i
SegmentAt(text, i) ==
    /\ MatchesAt(text, i, OpenTag)
    /\ \E j \in (i + Len(OpenTag))..Len(text) : MatchesAt(text, j, CloseTag)

\* where that match ends: at the first closing tag after the opening one
SegmentEnd(text, i) ==
    LET j == CHOOSE j \in (i + Len(OpenTag))..Len(text) :
                 /\ MatchesAt(text, j, CloseTag)
                 /\ \A k \in (i + Len(OpenTag))..(j - 1) : ~MatchesAt(text, k, CloseTag)
    IN j + Len(CloseTag) - 1

\* text.replace(/<think>[\s\S]*?<\/think>/gi, ''), from position i on: the
\* matches are found left to right in the text as given
RECURSIVE removeSegments(_, _)
removeSegments(text, i) ==
    IF i > Len(text) THEN <<>>
    ELSE IF SegmentAt(text, i) THEN removeSegments(text, SegmentEnd(text, i) + 1)
    ELSE <<text[i]>> \o removeSegments(text, i + 1)

cleanThinkTags(text) == trim(removeSegments(text, 1))

\* the text has a complete opening tag ... closing tag segment
HasSegment(text) == \E i \in 1..Len(text) : SegmentAt(text, i)

\* a response: what the HTTP request gave and what JSON.parse made of it
Response(k, c, m) == [kind |-> k, content |-> c, message |-> m]

NoResponse == Response("none", <<>>, <<>>)

\* no translate call made yet
NoTranslate ==
    [pc |-> "none", backend |-> "none", text |-> <<>>,
     response |-> NoResponse, ok |-> FALSE, value |-> <<>>,
     mode |-> "none", formatted |-> <<>>]

----------------------------------------------------------------------------
(* Initial states: the settings.json, globalState and SecretStorage the    *)
(* extension host starts with                                              *)

\* a stored record: clean, or written by an earlier version with its secret inline
StoredRecords(n) ==
    {Typed(n, p, k) : p \in ProviderChoices(n), k \in {Absent, LegacyKey}}

StoredNames == <<"A", "B", "C">>

\* the stored lists: prefixes of StoredNames, each record clean or with its secret inline
RECURSIVE StoredLists(_)
StoredLists(len) ==
    IF len = 0 THEN {<<>>}
    ELSE LET shorter == StoredLists(len - 1)
         IN shorter \cup
            {Append(ps, r) : ps \in {q \in shorter : Len(q) = len - 1},
                             r \in IF len <= Len(StoredNames)
                                   THEN StoredRecords(StoredNames[len]) ELSE {}}

\* the pointer is unset, names a stored profile, or is stale; a legacy
\* openai.apiKey setting is read only when no profile is stored
InitSettings ==
    {st \in [profiles : StoredLists(MaxInitProfiles), activeProfile : {"", "A", "B"},
             oldApiKey : {Absent, LegacyKey}] :
        st.oldApiKey = LegacyKey => Len(st.profiles) = 0}

\* the secret of a stored profile is in the secure store unless its record has it inline
InitSecrets(ps) ==
    [n \in AllNames |->
        IF n \in Names(ps) /\ NeedsKey(Find(ps, n).provider) /\ ~HasSecretField(Find(ps, n))
        THEN NewKey ELSE Absent]

Init ==
    /\ settings \in InitSettings
    /\ config = [profiles |-> <<>>, activeProfile |-> ""]
    /\ previousProfileName = ""
    /\ secrets = InitSecrets(settings.profiles)
    /\ DEFAULT_PROFILES = <<Profile(MockName, "openai", "", Absent)>>
    /\ written = FALSE
    /\ phase = "start"
    /\ mig = MigIdle
    /\ flow = [f \in Flows |-> FlowIdle]
    /\ ops = 0
    /\ last = NoCall
    /\ cells = <<>>
    /\ workspaceState = <<>>
    /\ cache = <<>>
    /\ run = RunIdle
    /\ cop = NoCacheOp
    /\ now = StartTime
    /\ baidu = [i \in Instances |-> BaiduIdle]
    /\ call = NoTranslate
    /\ statusBar = NoStatus

----------------------------------------------------------------------------
(* Startup actions                                                         *)

MigrateSettings ==
    /\ phase = "start"
    /\ Commit(migrateSettings(World))
    /\ phase' = "migrated"
    /\ UNCHANGED <<rvars, tvars, statusBar, mig, flow, ops, last>>

\* constructor: takes the snapshot, then migrateLegacyKeys() runs up to its first await
Construct ==
    /\ phase = "migrated"
    /\ LET w == refresh(World)
       IN /\ Commit(w)
          /\ mig' = [pc |-> "loop", profiles |-> getProfiles(w), i |-> 1, hasChanges |-> FALSE]
    /\ phase' = "constructed"
    /\ UNCHANGED <<rvars, tvars, statusBar, flow, ops, last>>

\* activate(): validateActiveProfile(), then the first statusBar.update
ValidateActiveProfile ==
    /\ phase = "constructed"
    /\ LET w == validateActiveProfile(World)
       IN /\ Commit(w)
          /\ statusBar' = update(IF getActiveProfileName(w) # ""
                                 THEN getActiveProfileName(w) ELSE NoProfileLabel,
                                 "ready")
    /\ phase' = "ready"
    /\ UNCHANGED <<rvars, tvars, mig, flow, ops, last>>

\* migrateLegacyKeys(): the loop body for the next profile
MigrateLoop ==
    /\ mig.pc = "loop"
    /\ mig.i <= Len(mig.profiles)
    /\ LET r == migrateOne(World, mig)
       IN /\ Commit(r.w)
          /\ mig' = r.m
    /\ UNCHANGED <<rvars, tvars, statusBar, phase, flow, ops, last>>

\* migrateLegacyKeys(): after the loop; config.update('profiles', profiles), no refresh()
MigrateWrite ==
    /\ mig.pc = "loop"
    /\ mig.i > Len(mig.profiles)
    /\ IF mig.hasChanges
       THEN Commit([World EXCEPT !.settings.profiles = mig.profiles, !.written = TRUE])
       ELSE Commit(World)
    /\ mig' = [mig EXCEPT !.pc = "done"]
    /\ UNCHANGED <<rvars, tvars, statusBar, phase, flow, ops, last>>

----------------------------------------------------------------------------
(* The profile manager's operations, called directly                       *)

Direct(excl) == CanStart(excl)

CallAddProfile(profile, excl) ==
    /\ Direct(excl)
    /\ LET r == addProfile(World, profile)
       IN /\ Commit(r.w)
          /\ last' = Call("addProfile", profile.name, profile, r.ok, Null, World)
    /\ flow' = Settle(flow)
    /\ ops' = IF Quiet THEN ops + 1 ELSE ops
    /\ UNCHANGED <<rvars, tvars, statusBar, phase, mig>>

CallUpdateProfile(name, updates, excl) ==
    /\ Direct(excl)
    /\ LET r == updateProfile(World, name, updates)
       IN /\ Commit(r.w)
          /\ last' = Call("updateProfile", name, Merge(NoProfile, updates), r.ok, Null, World)
    /\ flow' = Settle(flow)
    /\ ops' = IF Quiet THEN ops + 1 ELSE ops
    /\ UNCHANGED <<rvars, tvars, statusBar, phase, mig>>

CallDeleteProfile(name, excl) ==
    /\ Direct(excl)
    /\ LET r == deleteProfile(World, name)
       IN /\ Commit(r.w)
          /\ last' = Call("deleteProfile", name, NoProfile, r.ok, Null, World)
    /\ flow' = Settle(flow)
    /\ ops' = IF Quiet THEN ops + 1 ELSE ops
    /\ UNCHANGED <<rvars, tvars, statusBar, phase, mig>>

\* callers pass a listed name
CallSetActiveProfile(name, excl) ==
    /\ Direct(excl)
    /\ name \in Names(getProfiles(World))
    /\ Commit(setActiveProfile(World, name))
    /\ last' = Call("setActiveProfile", name, NoProfile, TRUE, Null, World)
    /\ flow' = Settle(flow)
    /\ ops' = IF Quiet THEN ops + 1 ELSE ops
    /\ UNCHANGED <<rvars, tvars, statusBar, phase, mig>>

CallRollbackToPrevious(excl) ==
    /\ Direct(excl)
    /\ LET r == rollbackToPrevious(World)
       IN /\ Commit(r.w)
          /\ last' = Call("rollbackToPrevious", "", NoProfile, TRUE, r.result, World)
    /\ flow' = Settle(flow)
    /\ ops' = IF Quiet THEN ops + 1 ELSE ops
    /\ UNCHANGED <<rvars, tvars, statusBar, phase, mig>>

CallSetApiKey(name, key, excl) ==
    /\ Direct(excl)
    /\ Commit(setApiKey(World, name, key))
    /\ last' = Call("setApiKey", name, Profile(name, "", key, Absent), TRUE, Null, World)
    /\ flow' = Settle(flow)
    /\ ops' = IF Quiet THEN ops + 1 ELSE ops
    /\ UNCHANGED <<rvars, tvars, statusBar, phase, mig>>

----------------------------------------------------------------------------
(* The Manage Profiles command: Switch Profile, Add New Profile, Delete    *)
(* Profile; and the connectivity probe (ipynbTranslator.testConnection)    *)

Startable(f, excl) ==
    /\ CanStart(excl)
    /\ flow[f].step \in {"idle", "done"}
    /\ excl => f = 1

\* switchProfile(): the pick, and setActiveProfile(selected)
SwitchSelect(f, selected, excl) ==
    /\ Startable(f, excl)
    /\ LET w == World
           activeProfileName == getActiveProfileName(w)
       IN /\ selected \in Names(getProfiles(w))
          /\ selected # activeProfileName
          /\ Commit(setActiveProfile(w, selected))
          /\ flow' = [Settle(flow) EXCEPT ![f] =
                        [FlowIdle EXCEPT !.step = "probe", !.kind = "switch",
                                         !.target = selected,
                                         !.from = activeProfileName,
                                         !.fromProfile = getActiveProfile(w).name,
                                         !.during = OthersAt(f)]]
    /\ last' = NoCall
    /\ ops' = IF Quiet THEN ops + 1 ELSE ops
    /\ UNCHANGED <<rvars, tvars, statusBar, phase, mig>>

\* addNewProfileWizard(): the inputs, addProfile, setApiKey, setActiveProfile
AddStart(f, name, provider, key, excl) ==
    /\ Startable(f, excl)
    /\ LET w == World
           profile == Typed(name, provider, key)
           secret == IF Truthy(profile.apiKey) THEN profile.apiKey ELSE profile.secretKey
           configProfile == [profile EXCEPT
                               !.apiKey = IF profile.provider = "openai" THEN Absent ELSE @,
                               !.secretKey = IF profile.provider = "baidu" THEN Absent ELSE @]
           added == addProfile(w, configProfile)
           w1 == IF Truthy(secret) THEN setApiKey(added.w, name, secret) ELSE added.w
       IN /\ name \notin Names(getProfiles(w))
          /\ NeedsKey(provider) <=> Truthy(key)
          /\ added.ok
          /\ Commit(setActiveProfile(w1, name))
          /\ flow' = [Settle(flow) EXCEPT ![f] =
                        [FlowIdle EXCEPT !.step = "probe", !.kind = "add",
                                         !.target = name,
                                         !.from = getActiveProfileName(w),
                                         !.fromProfile = getActiveProfile(w).name,
                                         !.during = OthersAt(f)]]
    /\ last' = NoCall
    /\ ops' = IF Quiet THEN ops + 1 ELSE ops
    /\ UNCHANGED <<rvars, tvars, statusBar, phase, mig>>

\* testTranslatorConnection(): refresh and getActiveProfile
ProbeStart(f) ==
    /\ flow[f].step = "probe"
    /\ LET w == refresh(World)
       IN /\ Commit(w)
          /\ flow' = [flow EXCEPT ![f].step = "testing", ![f].tested = getActiveProfile(w)]
          /\ statusBar' = IF getActiveProfile(w) = NoProfile
                          THEN update(NoProfileLabel, "error")
                          ELSE update(getActiveProfile(w).name, "testing")
    /\ last' = NoCall
    /\ ops' = IF Quiet THEN ops + 1 ELSE ops
    /\ UNCHANGED <<rvars, tvars, phase, mig>>

\* createTranslatorFromProfile(): MissingApiKeyError when the provider needs a key
MissingApiKey(w, profile) ==
    /\ NeedsKey(profile.provider)
    /\ ~Truthy(getApiKey(w, profile.name))

\* _performTest(): answered tells whether translate('Hello') returned a non-empty result
ProbeEnd(f, answered) ==
    /\ flow[f].step = "testing"
    /\ LET success == ~MissingApiKey(World, flow[f].tested) /\ answered
       IN /\ flow' = [flow EXCEPT ![f].step = "tested",
                                  ![f].success = IF success THEN "true" ELSE "false"]
          /\ statusBar' = IF flow[f].tested = NoProfile THEN statusBar
                          ELSE update(flow[f].tested.name,
                                      IF success THEN "success" ELSE "error")
    /\ last' = NoCall
    /\ UNCHANGED <<rvars, tvars, settings, config, previousProfileName, secrets, DEFAULT_PROFILES,
                   written, phase, mig, ops>>

\* switchProfile(): after the probe
SwitchFinish(f) ==
    /\ flow[f].step = "tested"
    /\ flow[f].kind = "switch"
    /\ LET r == IF flow[f].success = "false" THEN rollbackToPrevious(World)
                ELSE [w |-> World, result |-> Null]
       IN /\ Commit(r.w)
          /\ flow' = [flow EXCEPT ![f].step = "done", ![f].rolledBackTo = r.result]
    /\ last' = NoCall
    /\ ops' = IF Quiet THEN ops + 1 ELSE ops
    /\ UNCHANGED <<rvars, tvars, statusBar, phase, mig>>

\* addNewProfileWizard(): after the probe; a throwing deleteProfile ends the wizard
addFailed(w, name) ==
    LET deleted == deleteProfile(w, name)
    IN IF deleted.ok THEN rollbackToPrevious(deleted.w)
       ELSE [w |-> w, result |-> Null]

AddFinish(f) ==
    /\ flow[f].step = "tested"
    /\ flow[f].kind = "add"
    /\ LET r == IF flow[f].success = "false" THEN addFailed(World, flow[f].target)
                ELSE [w |-> World, result |-> Null]
       IN /\ Commit(r.w)
          /\ flow' = [flow EXCEPT ![f].step = "done", ![f].rolledBackTo = r.result]
    /\ last' = NoCall
    /\ ops' = IF Quiet THEN ops + 1 ELSE ops
    /\ UNCHANGED <<rvars, tvars, statusBar, phase, mig>>

\* deleteProfileWizard()
DeleteProfileWizard(selected, excl) ==
    /\ CanStart(excl)
    /\ LET w == World
           deleted == deleteProfile(w, selected)
       IN /\ Len(getProfiles(w)) > 1
          /\ selected \in Names(getProfiles(w))
          /\ Commit(deleted.w)
    /\ flow' = Settle(flow)
    /\ last' = NoCall
    /\ ops' = IF Quiet THEN ops + 1 ELSE ops
    /\ UNCHANGED <<rvars, tvars, statusBar, phase, mig>>

----------------------------------------------------------------------------
(* Specifications                                                          *)

\* arguments of the direct calls
AddArgs ==
    {Typed(n, p, k) : n \in UserNames, p \in {"openai", "baidu", "ollama"}, k \in {Absent, NewKey}}
        \cap {q \in [name : UserNames, provider : {"openai", "baidu", "ollama"},
                     apiKey : {Absent, NewKey}, secretKey : {Absent, NewKey}] :
                  q.provider \in ProviderChoices(q.name)}

\* Partial<TranslatorProfile>: a secret field, or the name field
UpdateArgs == {[apiKey |-> NewKey], [secretKey |-> NewKey], [name |-> "A"]}

Startup ==
    \/ MigrateSettings
    \/ Construct
    \/ ValidateActiveProfile
    \/ MigrateLoop
    \/ MigrateWrite

Calls(excl) ==
    \/ \E p \in AddArgs : CallAddProfile(p, excl)
    \/ \E n \in UserNames, u \in UpdateArgs : CallUpdateProfile(n, u, excl)
    \/ \E n \in AllNames : CallDeleteProfile(n, excl)
    \/ \E n \in AllNames : CallSetActiveProfile(n, excl)
    \/ CallRollbackToPrevious(excl)
    \/ \E n \in UserNames : CallSetApiKey(n, NewKey, excl)

Commands(excl) ==
    \/ \E f \in Flows, n \in AllNames : SwitchSelect(f, n, excl)
    \/ \E f \in Flows, n \in UserNames, k \in {Absent, NewKey} :
          \E p \in ProviderChoices(n) : AddStart(f, n, p, k, excl)
    \/ \E f \in Flows : ProbeStart(f)
    \/ \E f \in Flows, answered \in BOOLEAN : ProbeEnd(f, answered)
    \/ \E f \in Flows : SwitchFinish(f)
    \/ \E f \in Flows : AddFinish(f)
    \/ \E n \in AllNames : DeleteProfileWizard(n, excl)

\* one command or call at a time, after startup has finished
Next == Startup \/ Calls(TRUE) \/ Commands(TRUE)

Spec == Init /\ [][Next]_vars

----------------------------------------------------------------------------
(* The Translate Notebook command and the cache's operations               *)

\* markdown cells of the notebook in the editor
MaxCells == 2

\* Translate Notebook commands and cache calls started
MaxRuns == 2

CellTexts == {Hi, NiHao, Rare, Blank, Empty}

\* texts passed to the cache directly
CacheTexts == {Ab, Ca}

\* what translator.translate resolves to
Replies == {NiHao, Empty}

\* translations passed to the cache directly
CacheValues == {NiHao, Hi}

Modes == {"replace", "bilingual"}

\* the notebooks: up to len consecutive cells of a document in which the texts
\* follow each other in this order, over and over
CellCycle == <<Hi, Hi, NiHao, Rare, Blank, Empty>>

Notebooks(len) ==
    {[i \in 1..l |-> CellCycle[((start + i - 2) % Len(CellCycle)) + 1]] :
        start \in 1..Len(CellCycle), l \in 1..len}

\* the profiles stored when a notebook is translated: A for the chat-completion
\* service, B for the signed-query service, C for the local one
RunProfiles ==
    <<Typed("A", "openai", Absent), Typed("B", "baidu", Absent),
      Typed("C", "ollama", Absent)>>

\* the extension is active with these profiles, A or B active (C becomes
\* active by Switch Profile), and the
\* secret of A or of B in the secure store; stored: the durable cache states an
\* earlier session may have left, each a translation of "Hi" made while the
\* profile with the secret was active
InitWith(stored) ==
    /\ settings \in [profiles : {RunProfiles}, activeProfile : {"A", "B"},
                     oldApiKey : {Absent}]
    /\ config = [profiles |-> settings.profiles, activeProfile |-> settings.activeProfile]
    /\ previousProfileName = ""
    /\ \E keyed \in {"A", "B"} :
          /\ secrets = [n \in AllNames |-> IF n = keyed THEN NewKey ELSE Absent]
          /\ workspaceState \in stored
          /\ run = [RunIdle EXCEPT !.origin =
                      IF workspaceState = <<>> THEN {} ELSE {<<Hi, keyed>>}]
    /\ DEFAULT_PROFILES = <<Profile(MockName, "openai", "", Absent)>>
    /\ written = FALSE
    /\ phase = "ready"
    /\ mig = [MigIdle EXCEPT !.pc = "done"]
    /\ flow = [f \in Flows |-> FlowIdle]
    /\ ops = 0
    /\ last = NoCall
    /\ cells \in Notebooks(MaxCells)
    /\ cache = workspaceState
    /\ cop = NoCacheOp
    /\ now = StartTime
    /\ baidu = [i \in Instances |-> BaiduIdle]
    /\ call = NoTranslate
    /\ statusBar = update(getActiveProfileName(World), "ready")

\* a translation of "Hi" may have been cached by an earlier session
InitRun == InitWith({<<>>, put(<<>>, Hi, NiHao)})

pvars == <<settings, config, previousProfileName, secrets, DEFAULT_PROFILES,
           written, phase, mig, flow, ops, last, statusBar>>

\* no Translate Notebook command is in progress
RunOver == run.pc \in {"idle", "done", "cancelled", "failed"}

\* variant: the token is never looked at
isCancellationRequested_Never(r) == FALSE

\* token.isCancellationRequested
isCancellationRequested(r) == r.cancel

\* steps 7 and 8 of the loop: the unit is skipped
skips(cellText) == hasChinese(cellText) \/ Len(trim(cellText)) = 0

\* variant: a failing unit ends the run
onError_Abort(r) ==
    [r EXCEPT !.pc = "done", !.reported = r.reported + 1, !.unit = "failed"]

\* the catch block of the loop body
onError(r) ==
    [r EXCEPT !.pc = "loop", !.i = r.i + 1, !.reported = r.reported + 1,
              !.unit = "failed"]

\* the origins left when the entry of text is overwritten
others(r, text) == {o \in r.origin : computeHash(o[1]) # computeHash(text)}

\* variant: the log names the profile that is active when the call returns
profileName_Current(w, r) == getActiveProfile(refresh(w)).name

\* stats.log: profileName is activeProfile.name, the constant the run set at its start
profileName(w, r) == r.profile

\* variant: the lookup always misses
lookup_Miss(c, cellText) == Undefined

\* step 9: cache.get(cellText)
lookup(c, cellText) == get(c, cellText)

\* the class createTranslatorFromProfile builds for a provider
TranslatorOf(provider) ==
    CASE provider = "openai" -> "OpenAITranslator"
      [] provider = "baidu" -> "BaiduTranslator"
      [] provider = "ollama" -> "OllamaTranslator"
      [] OTHER -> "none"

\* variant: a translator is built without the secret
createTranslatorFromProfile_NoCheck(w, profile) ==
    [ok |-> TRUE, translator |-> TranslatorOf(profile.provider), error |-> "none"]

\* createTranslatorFromProfile: the translator, or the error thrown
createTranslatorFromProfile(w, profile) ==
    IF MissingApiKey(w, profile)
    THEN [ok |-> FALSE, translator |-> "none", error |-> "MissingApiKeyError"]
    ELSE IF TranslatorOf(profile.provider) = "none"
    THEN [ok |-> FALSE, translator |-> "none", error |-> "Error"]
    ELSE [ok |-> TRUE, translator |-> TranslatorOf(profile.provider), error |-> "none"]

\* the command up to the loop: refresh, the active profile, the translator built
\* from it (an error ends the command), a TranslationCache over workspaceState
RunStart(mode) ==
    /\ RunOver
    /\ run.n < MaxRuns
    /\ Len(cells) > 0
    /\ LET w == refresh(World)
           activeProfile == getActiveProfile(w)
           built == createTranslatorFromProfile(w, activeProfile)
       IN /\ Commit(w)
          /\ activeProfile # NoProfile
          /\ run' = [RunIdle EXCEPT !.pc = IF built.ok THEN "loop" ELSE "failed",
                                    !.mode = mode, !.n = run.n + 1,
                                    !.profile = activeProfile.name,
                                    !.translator = built.translator,
                                    !.error = built.error, !.probe = run.probe,
                                    !.origin = run.origin, !.unit = "started"]
          /\ cache' = IF built.ok THEN workspaceState ELSE cache
          /\ cop' = IF built.ok THEN [NoCacheOp EXCEPT !.op = "construct"] ELSE NoCacheOp
    /\ UNCHANGED <<tvars, phase, mig, flow, ops, last, cells, workspaceState, statusBar>>

\* the Test Connection command: refresh, the active profile, the translator
\* built from it, translate('Hello'); answered: the call returned a non-empty text
TestConnection(answered) ==
    /\ RunOver
    /\ run.n < MaxRuns
    /\ LET w == refresh(World)
           activeProfile == getActiveProfile(w)
           built == createTranslatorFromProfile(w, activeProfile)
       IN /\ Commit(w)
          /\ activeProfile # NoProfile
          /\ run' = [run EXCEPT !.n = run.n + 1, !.unit = "probed",
                                !.profile = activeProfile.name,
                                !.translator = built.translator, !.error = built.error,
                                !.probe = IF built.ok /\ answered THEN "true" ELSE "false"]
          /\ statusBar' = update(activeProfile.name,
                                 IF built.ok /\ answered THEN "success" ELSE "error")
    /\ cop' = NoCacheOp
    /\ UNCHANGED <<tvars, phase, mig, flow, ops, last, cells, workspaceState, cache>>

\* the Switch Profile command between two runs: the pick of another profile,
\* setActiveProfile, the connection test, rollbackToPrevious when it fails
SwitchProfile(selected, answered) ==
    /\ RunOver
    /\ run.n < MaxRuns
    /\ selected \in Names(getProfiles(World))
    /\ selected # getActiveProfileName(World)
    /\ LET w == refresh(setActiveProfile(World, selected))
           built == createTranslatorFromProfile(w, getActiveProfile(w))
           success == built.ok /\ answered
       IN /\ Commit(IF success THEN w ELSE rollbackToPrevious(w).w)
          /\ run' = [run EXCEPT !.n = run.n + 1, !.unit = "switched",
                                !.probe = IF success THEN "true" ELSE "false"]
          /\ statusBar' = update(getActiveProfile(w).name,
                                 IF success THEN "success" ELSE "error")
    /\ cop' = NoCacheOp
    /\ UNCHANGED <<tvars, phase, mig, flow, ops, last, cells, workspaceState, cache>>

\* the Switch Profile command while a run waits for its backend or its edit
SwitchDuringRun(selected, answered) ==
    /\ run.pc \in {"call", "edit"}
    /\ run.n < MaxRuns
    /\ selected \in Names(getProfiles(World))
    /\ selected # getActiveProfileName(World)
    /\ LET w == refresh(setActiveProfile(World, selected))
           built == createTranslatorFromProfile(w, getActiveProfile(w))
           success == built.ok /\ answered
       IN /\ Commit(IF success THEN w ELSE rollbackToPrevious(w).w)
          /\ run' = [run EXCEPT !.n = run.n + 1,
                                !.probe = IF success THEN "true" ELSE "false"]
          /\ statusBar' = update(getActiveProfile(w).name,
                                 IF success THEN "success" ELSE "error")
    /\ cop' = NoCacheOp
    /\ UNCHANGED <<tvars, phase, mig, flow, ops, last, cells, workspaceState, cache>>

\* one pass of the loop, up to its first await
LoopStep ==
    /\ run.pc = "loop"
    /\ run' =
         IF run.i > Len(cells)
         THEN [run EXCEPT !.pc = "done", !.unit = "finished"]
         ELSE IF isCancellationRequested(run)
         THEN [run EXCEPT !.pc = "cancelled", !.unit = "cancelled"]
         ELSE IF skips(cells[run.i])
         THEN [run EXCEPT !.skippedCount = run.skippedCount + 1, !.i = run.i + 1,
                          !.unit = "skipped"]
         ELSE IF TruthyText(lookup(cache, cells[run.i]))
         THEN [run EXCEPT !.cachedCount = run.cachedCount + 1,
                          !.translatedText = lookup(cache, cells[run.i]),
                          !.pc = "edit", !.unit = "hit",
                          !.plain = IF hasChinese(lookup(cache, cells[run.i]))
                                    THEN run.plain ELSE run.plain + 1]
         ELSE [run EXCEPT !.pc = "call", !.sent = run.sent + 1, !.unit = "sent",
                          !.calledOn = run.translator]
    /\ cop' = NoCacheOp
    /\ UNCHANGED <<pvars, tvars, cells, workspaceState, cache>>

\* translator.translate resolves: stats.log, cache.put, translatedCount++
BackendReturn(translatedText) ==
    /\ run.pc = "call"
    /\ run' = [run EXCEPT !.pc = "edit", !.translatedCount = run.translatedCount + 1,
                          !.translatedText = translatedText, !.unit = "translated",
                          !.loggedAs = profileName(World, run),
                          !.origin = others(run, cells[run.i])
                                       \cup {<<cells[run.i], run.profile>>}]
    /\ cache' = put(cache, cells[run.i], translatedText)
    /\ workspaceState' = cache'
    /\ cop' = [op |-> "put", text |-> cells[run.i], value |-> translatedText]
    /\ UNCHANGED <<pvars, tvars, cells>>

\* translator.translate rejects
BackendFail ==
    /\ run.pc = "call"
    /\ run' = onError(run)
    /\ cop' = NoCacheOp
    /\ UNCHANGED <<pvars, tvars, cells, workspaceState, cache>>

\* workspace.applyEdit resolves; a refused edit is only logged
ApplyEdit(success) ==
    /\ run.pc = "edit"
    /\ cells' = IF success
                THEN [cells EXCEPT ![run.i] =
                        formatTranslation(cells[run.i], run.translatedText, run.mode)]
                ELSE cells
    /\ run' = [run EXCEPT !.pc = "loop", !.i = run.i + 1,
                          !.unit = IF success THEN "edited" ELSE "refused",
                          !.refused = IF success THEN run.refused ELSE run.refused + 1]
    /\ cop' = NoCacheOp
    /\ UNCHANGED <<pvars, tvars, workspaceState, cache>>

\* the user presses Cancel on the progress notification
Cancel ==
    /\ run.pc \in {"loop", "call", "edit"}
    /\ ~run.cancel
    /\ run' = [run EXCEPT !.cancel = TRUE, !.unit = "none"]
    /\ cop' = NoCacheOp
    /\ UNCHANGED <<pvars, tvars, cells, workspaceState, cache>>

\* variant: put does not persist
CachePut_MemoryOnly(text, translation) ==
    /\ RunOver
    /\ run.n < MaxRuns
    /\ cache' = put(cache, text, translation)
    /\ workspaceState' = workspaceState
    /\ cop' = [op |-> "put", text |-> text, value |-> translation]
    /\ run' = [run EXCEPT !.n = run.n + 1, !.unit = "none",
                          !.origin = others(run, text)]
    /\ UNCHANGED <<pvars, tvars, cells>>

\* TranslationCache.put, called directly
CachePut(text, translation) ==
    /\ RunOver
    /\ run.n < MaxRuns
    /\ cache' = put(cache, text, translation)
    /\ workspaceState' = cache'
    /\ cop' = [op |-> "put", text |-> text, value |-> translation]
    /\ run' = [run EXCEPT !.n = run.n + 1, !.unit = "none",
                          !.origin = others(run, text)]
    /\ UNCHANGED <<pvars, tvars, cells>>

\* TranslationCache.clear, called directly
CacheClear ==
    /\ RunOver
    /\ run.n < MaxRuns
    /\ cache' = clear
    /\ workspaceState' = cache'
    /\ cop' = [NoCacheOp EXCEPT !.op = "clear"]
    /\ run' = [run EXCEPT !.n = run.n + 1, !.unit = "none", !.origin = {}]
    /\ UNCHANGED <<pvars, tvars, cells>>

\* new TranslationCache(context)
CacheConstruct ==
    /\ RunOver
    /\ run.n < MaxRuns
    /\ cache' = workspaceState
    /\ cop' = [NoCacheOp EXCEPT !.op = "construct"]
    /\ run' = [run EXCEPT !.n = run.n + 1, !.unit = "none"]
    /\ UNCHANGED <<pvars, tvars, cells, workspaceState>>

NextRun ==
    \/ \E mode \in Modes : RunStart(mode)
    \/ \E answered \in BOOLEAN : TestConnection(answered)
    \/ \E selected \in Names(RunProfiles), answered \in BOOLEAN :
          SwitchProfile(selected, answered)
    \/ LoopStep
    \/ \E t \in Replies : BackendReturn(t)
    \/ BackendFail
    \/ \E success \in BOOLEAN : ApplyEdit(success)
    \/ Cancel
    \/ \E t \in CacheTexts, r \in CacheValues : CachePut(t, r)
    \/ CacheClear
    \/ CacheConstruct

SpecRun == InitRun /\ [][NextRun]_vars

\* a run, with Switch Profile commands before it, after it and while it waits
NextRunSwitch ==
    \/ \E mode \in Modes : RunStart(mode)
    \/ LoopStep
    \/ \E t \in Replies : BackendReturn(t)
    \/ BackendFail
    \/ \E success \in BOOLEAN : ApplyEdit(success)
    \/ \E selected \in Names(RunProfiles), answered \in BOOLEAN :
          SwitchProfile(selected, answered)
    \/ \E selected \in Names(RunProfiles), answered \in BOOLEAN :
          SwitchDuringRun(selected, answered)

SpecRunSwitch == InitRun /\ [][NextRunSwitch]_vars

----------------------------------------------------------------------------
(* BaiduTranslator.translate, one call after another on each instance      *)

\* translate calls made on one instance
MaxCalls == 2

\* the clock is followed for MaxIntervals * minInterval milliseconds
MaxIntervals == 2

\* what the clock advances by between two steps
Advances == {400, 1100}

\* no profile stored, no notebook: only the translators act
Parked ==
    /\ settings = [profiles |-> <<>>, activeProfile |-> "", oldApiKey |-> Absent]
    /\ config = [profiles |-> <<>>, activeProfile |-> ""]
    /\ previousProfileName = ""
    /\ secrets = [n \in AllNames |-> Absent]
    /\ DEFAULT_PROFILES = <<Profile(MockName, "openai", "", Absent)>>
    /\ written = FALSE
    /\ phase = "ready"
    /\ mig = [MigIdle EXCEPT !.pc = "done"]
    /\ flow = [f \in Flows |-> FlowIdle]
    /\ ops = 0
    /\ last = NoCall
    /\ cells = <<>>
    /\ workspaceState = <<>>
    /\ cache = <<>>
    /\ run = RunIdle
    /\ cop = NoCacheOp
    /\ statusBar = NoStatus

InitBaidu ==
    /\ Parked
    /\ now = StartTime
    /\ baidu = [i \in Instances |-> BaiduIdle]
    /\ call = NoTranslate

\* this.lastRequestTime = Date.now(), and the request is built and sent
issue(b, t) ==
    [b EXCEPT !.pc = "request", !.lastRequestTime = t, !.issued = Append(b.issued, t)]

\* translate is called: waitForRateLimit up to its await, or through to the request
BaiduTranslate(i) ==
    /\ baidu[i].pc = "idle"
    /\ Len(baidu[i].issued) < MaxCalls
    /\ baidu' = [baidu EXCEPT ![i] =
                    IF sleepFor(now, baidu[i].lastRequestTime) > 0
                    THEN [baidu[i] EXCEPT !.pc = "sleep",
                             !.wake = now + sleepFor(now, baidu[i].lastRequestTime)]
                    ELSE issue(baidu[i], now)]
    /\ UNCHANGED <<pvars, rvars, now, call>>

\* the timer of sleep fires, not before its delay has passed
BaiduWake(i) ==
    /\ baidu[i].pc = "sleep"
    /\ now >= baidu[i].wake
    /\ baidu' = [baidu EXCEPT ![i] = issue(baidu[i], now)]
    /\ UNCHANGED <<pvars, rvars, now, call>>

\* httpRequest settles and translate returns or throws
BaiduSettle(i) ==
    /\ baidu[i].pc = "request"
    /\ baidu' = [baidu EXCEPT ![i].pc = "idle"]
    /\ UNCHANGED <<pvars, rvars, now, call>>

\* time passes
Advance(d) ==
    /\ now + d <= StartTime + MaxIntervals * minInterval
    /\ now' = now + d
    /\ UNCHANGED <<pvars, rvars, baidu, call>>

NextBaidu ==
    \/ \E i \in Instances : BaiduTranslate(i)
    \/ \E i \in Instances : BaiduWake(i)
    \/ \E i \in Instances : BaiduSettle(i)
    \/ \E d \in Advances : Advance(d)

SpecBaidu == InitBaidu /\ [][NextBaidu]_vars

----------------------------------------------------------------------------
(* The translate methods of the chat backends                              *)

\* "connect ECONNREFUSED 127.0.0.1:11434"
Refused ==
    <<99, 111, 110, 110, 101, 99, 116, 32, 69, 67, 79, 78, 78, 82, 69, 70, 85,
    83, 69, 68, 32, 49, 50, 55, 46, 48, 46, 48, 46, 49, 58, 49, 49, 52, 51,
    52>>

\* "socket hang up"
HangUp ==
    <<115, 111, 99, 107, 101, 116, 32, 104, 97, 110, 103, 32, 117, 112>>

\* "model 'llama3' not found"
ModelMissing ==
    <<109, 111, 100, 101, 108, 32, 39, 108, 108, 97, 109, 97, 51, 39, 32, 110,
    111, 116, 32, 102, 111, 117, 110, 100>>

\* "server busy"
Busy ==
    <<115, 101, 114, 118, 101, 114, 32, 98, 117, 115, 121>>

\* "Unexpected token < in JSON at position 0"
SyntaxPlain ==
    <<85, 110, 101, 120, 112, 101, 99, 116, 101, 100, 32, 116, 111, 107, 101,
    110, 32, 60, 32, 105, 110, 32, 74, 83, 79, 78, 32, 97, 116, 32, 112, 111,
    115, 105, 116, 105, 111, 110, 32, 48>>

\* "Unexpected token 'm', \"model not found\" is not valid JSON"
SyntaxQuoting ==
    <<85, 110, 101, 120, 112, 101, 99, 116, 101, 100, 32, 116, 111, 107, 101,
    110, 32, 39, 109, 39, 44, 32, 34, 109, 111, 100, 101, 108, 32, 110, 111,
    116, 32, 102, 111, 117, 110, 100, 34, 32, 105, 115, 32, 110, 111, 116, 32,
    118, 97, 108, 105, 100, 32, 74, 83, 79, 78>>

\* "ECONNREFUSED"
ECONNREFUSED ==
    <<69, 67, 79, 78, 78, 82, 69, 70, 85, 83, 69, 68>>

\* "model"
ModelWord ==
    <<109, 111, 100, 101, 108>>

\* "not found"
NotFoundWords ==
    <<110, 111, 116, 32, 102, 111, 117, 110, 100>>

\* "HTTP 404: "
HttpPrefix ==
    <<72, 84, 84, 80, 32, 52, 48, 52, 58, 32>>

\* "Translation Empty (Reasoning only)"
ReasoningOnly ==
    <<84, 114, 97, 110, 115, 108, 97, 116, 105, 111, 110, 32, 69, 109, 112,
    116, 121, 32, 40, 82, 101, 97, 115, 111, 110, 105, 110, 103, 32, 111, 110,
    108, 121, 41>>

\* "Invalid response format from OpenAI API"
InvalidOpenAI ==
    <<73, 110, 118, 97, 108, 105, 100, 32, 114, 101, 115, 112, 111, 110, 115,
    101, 32, 102, 111, 114, 109, 97, 116, 32, 102, 114, 111, 109, 32, 79, 112,
    101, 110, 65, 73, 32, 65, 80, 73>>

\* "Invalid response format from Ollama API"
InvalidOllama ==
    <<73, 110, 118, 97, 108, 105, 100, 32, 114, 101, 115, 112, 111, 110, 115,
    101, 32, 102, 111, 114, 109, 97, 116, 32, 102, 114, 111, 109, 32, 79, 108,
    108, 97, 109, 97, 32, 65, 80, 73>>

\* "Ollama API error: "
OllamaApiError ==
    <<79, 108, 108, 97, 109, 97, 32, 65, 80, 73, 32, 101, 114, 114, 111, 114,
    58, 32>>

\* "Translation failed: "
TranslationFailed ==
    <<84, 114, 97, 110, 115, 108, 97, 116, 105, 111, 110, 32, 102, 97, 105,
    108, 101, 100, 58, 32>>

\* "翻译失败: "
FanYiShiBai ==
    <<32763, 35793, 22833, 36133, 58, 32>>

\* "http://localhost:11434"
Endpoint ==
    <<104, 116, 116, 112, 58, 47, 47, 108, 111, 99, 97, 108, 104, 111, 115,
    116, 58, 49, 49, 52, 51, 52>>

\* "llama3"
Model ==
    <<108, 108, 97, 109, 97, 51>>

\* "无法连接到 Ollama 服务 ("
StartServerHead ==
    <<26080, 27861, 36830, 25509, 21040, 32, 79, 108, 108, 97, 109, 97, 32,
    26381, 21153, 32, 40>>

\* ")。请确保：\n1. Ollama 已安装并正在运行（运行 'ollama serve'）\n2. 端点地址配置正确"
StartServerTail ==
    <<41, 12290, 35831, 30830, 20445, 65306, 10, 49, 46, 32, 79, 108, 108, 97,
    109, 97, 32, 24050, 23433, 35013, 24182, 27491, 22312, 36816, 34892,
    65288, 36816, 34892, 32, 39, 111, 108, 108, 97, 109, 97, 32, 115, 101,
    114, 118, 101, 39, 65289, 10, 50, 46, 32, 31471, 28857, 22320, 22336,
    37197, 32622, 27491, 30830>>

\* "模型 '"
FetchModelHead ==
    <<27169, 22411, 32, 39>>

\* "' 未找到。请运行 'ollama pull "
FetchModelMid ==
    <<39, 32, 26410, 25214, 21040, 12290, 35831, 36816, 34892, 32, 39, 111,
    108, 108, 97, 109, 97, 32, 112, 117, 108, 108, 32>>

\* "' 下载模型"
FetchModelTail ==
    <<39, 32, 19979, 36733, 27169, 22411>>

\* text.includes(pat)
includes(text, pat) ==
    \E i \in 1..(Len(text) - Len(pat) + 1) : SubSeq(text, i, i + Len(pat) - 1) = pat

returns(text) == [ok |-> TRUE, value |-> text]
throws(message) == [ok |-> FALSE, value |-> message]

\* the Error the awaited request or JSON.parse throws, <<>> for none: the
\* request error's own message, HTTP status and body, or the SyntaxError's message
rejection(r) ==
    IF r.kind = "socket" THEN r.message
    ELSE IF r.kind = "http" THEN HttpPrefix \o r.message
    ELSE IF r.kind = "unparsable" THEN r.message
    ELSE <<>>

\* variant: an answer that cleans to nothing is returned as it is
reasoningOnly_Never(content, cleaned) == FALSE

\* !cleaned && content.trim().length > 0
reasoningOnly(content, cleaned) == cleaned = <<>> /\ Len(trim(content)) > 0

\* what the try block of OpenAITranslator.translate returns or throws
openaiTry(r) ==
    IF rejection(r) # <<>> THEN throws(rejection(r))
    ELSE IF r.kind = "reply"
    THEN IF ~TruthyText(r.content) THEN returns(<<>>)
         ELSE IF reasoningOnly(r.content, cleanThinkTags(r.content))
         THEN throws(ReasoningOnly)
         ELSE returns(cleanThinkTags(r.content))
    ELSE throws(InvalidOpenAI)

\* OpenAITranslator.translate: the catch block wraps every Error
openaiTranslate(r) ==
    IF openaiTry(r).ok THEN openaiTry(r)
    ELSE throws(TranslationFailed \o openaiTry(r).value)

\* what the try block of OllamaTranslator.translate returns or throws
ollamaTry(r) ==
    IF rejection(r) # <<>> THEN throws(rejection(r))
    ELSE IF r.kind = "reply" /\ TruthyText(r.content)
    THEN IF reasoningOnly(r.content, cleanThinkTags(r.content))
         THEN throws(ReasoningOnly)
         ELSE returns(cleanThinkTags(r.content))
    ELSE IF r.kind = "error" THEN throws(OllamaApiError \o r.message)
    ELSE throws(InvalidOllama)

StartServer == StartServerHead \o Endpoint \o StartServerTail
FetchModel == FetchModelHead \o Model \o FetchModelMid \o Model \o FetchModelTail

\* OllamaTranslator.translate: the catch block picks the message
ollamaTranslate(r) ==
    IF ollamaTry(r).ok THEN ollamaTry(r)
    ELSE IF includes(ollamaTry(r).value, ECONNREFUSED) THEN throws(StartServer)
    ELSE IF includes(ollamaTry(r).value, ModelWord) /\ includes(ollamaTry(r).value, NotFoundWords)
    THEN throws(FetchModel)
    ELSE throws(FanYiShiBai \o ollamaTry(r).value)

\* BaiduTranslator.translate, as a function of the response

\* the object errorMessages, as its keys and values in order
errorMessages ==
  <<
    \* '52001': '请求超时，请重试'
    <<<<53, 50, 48, 48, 49>>,
      <<35831, 27714, 36229, 26102, 65292, 35831, 37325, 35797>>>>,
    \* '52002': '系统错误，请重试'
    <<<<53, 50, 48, 48, 50>>,
      <<31995, 32479, 38169, 35823, 65292, 35831, 37325, 35797>>>>,
    \* '52003': '未授权用户，请检查 APP ID 是否正确'
    <<<<53, 50, 48, 48, 51>>,
      <<26410, 25480, 26435, 29992, 25143, 65292, 35831, 26816, 26597, 32, 65,
      80, 80, 32, 73, 68, 32, 26159, 21542, 27491, 30830>>>>,
    \* '54000': '必填参数为空'
    <<<<53, 52, 48, 48, 48>>,
      <<24517, 22635, 21442, 25968, 20026, 31354>>>>,
    \* '54001': '签名错误，请检查 APP ID 和密钥是否正确'
    <<<<53, 52, 48, 48, 49>>,
      <<31614, 21517, 38169, 35823, 65292, 35831, 26816, 26597, 32, 65, 80,
      80, 32, 73, 68, 32, 21644, 23494, 38053, 26159, 21542, 27491, 30830>>>>,
    \* '54003': '访问频率受限，请降低调用频率'
    <<<<53, 52, 48, 48, 51>>,
      <<35775, 38382, 39057, 29575, 21463, 38480, 65292, 35831, 38477, 20302,
      35843, 29992, 39057, 29575>>>>,
    \* '54004': '账户余额不足'
    <<<<53, 52, 48, 48, 52>>,
      <<36134, 25143, 20313, 39069, 19981, 36275>>>>,
    \* '54005': '长query请求频繁，请降低长文本调用频率'
    <<<<53, 52, 48, 48, 53>>,
      <<38271, 113, 117, 101, 114, 121, 35831, 27714, 39057, 32321, 65292,
      35831, 38477, 20302, 38271, 25991, 26412, 35843, 29992, 39057, 29575>>>>,
    \* '58000': '客户端IP非法'
    <<<<53, 56, 48, 48, 48>>,
      <<23458, 25143, 31471, 73, 80, 38750, 27861>>>>,
    \* '58001': '译文语言方向不支持'
    <<<<53, 56, 48, 48, 49>>,
      <<35793, 25991, 35821, 35328, 26041, 21521, 19981, 25903, 25345>>>>,
    \* '58002': '服务当前已关闭'
    <<<<53, 56, 48, 48, 50>>,
      <<26381, 21153, 24403, 21069, 24050, 20851, 38381>>>>,
    \* '90107': '认证未通过或未生效'
    <<<<57, 48, 49, 48, 55>>,
      <<35748, 35777, 26410, 36890, 36807, 25110, 26410, 29983, 25928>>>>
  >>

\* "百度翻译 API 错误: "
BaiduApiError ==
    <<30334, 24230, 32763, 35793, 32, 65, 80, 73, 32, 38169, 35823, 58, 32>>

\* "未知错误 ("
UnknownHead ==
    <<26410, 30693, 38169, 35823, 32, 40>>

\* ")"
UnknownTail ==
    <<41>>

\* "百度翻译 API 返回格式错误"
BadFormat ==
    <<30334, 24230, 32763, 35793, 32, 65, 80, 73, 32, 36820, 22238, 26684,
    24335, 38169, 35823>>

\* "签名错误"
SignError ==
    <<31614, 21517, 38169, 35823>>

\* codes the table does not have
OtherCodes == {<<53, 50, 48, 48, 48>>, <<53, 56, 48, 48, 51>>}    \* "52000", "58003"

KnownCodes == {errorMessages[k][1] : k \in 1..Len(errorMessages)}

\* variant: no code has a message of its own
errorMsg_Unknown(code) == UnknownHead \o code \o UnknownTail

\* errorMessages[data.error_code] || `未知错误 (${data.error_code})`
errorMsg(code) ==
    IF code \in KnownCodes
    THEN LET k == CHOOSE k \in 1..Len(errorMessages) : errorMessages[k][1] = code
         IN errorMessages[k][2]
    ELSE UnknownHead \o code \o UnknownTail

\* trans_result.map(item => item.dst).join('\n')
RECURSIVE join(_)
join(dsts) ==
    IF Len(dsts) = 0 THEN <<>>
    ELSE IF Len(dsts) = 1 THEN dsts[1]
    ELSE dsts[1] \o <<10>> \o join(Tail(dsts))

\* what the try block of BaiduTranslator.translate returns or throws; a
\* response of kind "code" has error_code in message, one of kind "result" has
\* the joined trans_result in content
baiduTry(r) ==
    IF rejection(r) # <<>> THEN throws(rejection(r))
    ELSE IF r.kind = "code" THEN throws(BaiduApiError \o errorMsg(r.message))
    ELSE IF r.kind = "result" THEN returns(r.content)
    ELSE throws(BadFormat)

\* BaiduTranslator.translate: the catch block wraps every Error
baiduTranslate(r) ==
    IF baiduTry(r).ok THEN baiduTry(r)
    ELSE throws(FanYiShiBai \o baiduTry(r).value)

\* the JSON answers of the signed-query service: an error_code, with or without
\* a trans_result; a trans_result of one or two lines; neither
BaiduResponses ==
    {Response("code", c, m) : c \in {<<>>, NiHao}, m \in KnownCodes \cup OtherCodes}
    \cup {Response("result", join(dsts), <<>>) : dsts \in {<<NiHao>>, <<NiHao, NiHao>>}}
    \cup {Response("empty", <<>>, <<>>)}

\* "[模拟翻译]"
MockMarker == <<91, 27169, 25311, 32763, 35793, 93>>

\* "Hello world"
HelloWorld ==
    <<72, 101, 108, 108, 111, 32, 119, 111, 114, 108, 100>>

\* variant: the text comes back as it is
mockTranslate_Echo(text) == returns(text)

\* MockTranslator.translate: `[模拟翻译]\n${text}`
mockTranslate(text) == returns(MockMarker \o <<10>> \o text)

\* texts given to the mock translator
MockTexts == {HelloWorld, Hi, NiHao, Empty}

\* pieces an answer of a model is put together from
MaxPieces == 4

Pieces ==
    {<<60, 84, 104, 105, 110, 107, 62, 10, 60, 47, 84, 72, 73, 78, 75, 62>>,  \* "<Think>\n</THINK>"
     CloseTag,
     <<60, 116, 104>>,       \* "<th"
     <<105, 110, 107, 62>>,  \* "ink>"
     <<32>>}                 \* " "

RECURSIVE Contents(_)
Contents(n) ==
    IF n = 0 THEN {<<>>}
    ELSE Contents(n - 1) \cup {c \o q : c \in Contents(n - 1), q \in Pieces}

\* message.content of a reply: a string, or missing
Responses ==
    {Response("reply", c, <<>>) : c \in Contents(MaxPieces) \cup {Undefined}}
    \cup {Response("socket", <<>>, m) : m \in {Refused, HangUp}}
    \cup {Response("http", <<>>, m) : m \in {ModelMissing, Busy}}
    \cup {Response("unparsable", <<>>, m) : m \in {SyntaxPlain, SyntaxQuoting}}
    \cup {Response("error", <<>>, m) : m \in {ModelMissing, Busy}}
    \cup {Response("other", <<>>, <<>>)}

InitChat ==
    /\ Parked
    /\ now = StartTime
    /\ baidu = [i \in Instances |-> BaiduIdle]
    /\ call \in {[NoTranslate EXCEPT !.pc = "request", !.text = Hi, !.response = r] :
                    r \in Responses \cup BaiduResponses}
                \cup {[NoTranslate EXCEPT !.pc = "timer", !.text = t] : t \in MockTexts}

\* the request of OpenAITranslator.translate settles
OpenAITranslate ==
    /\ call.pc = "request"
    /\ call' = [call EXCEPT !.pc = "done", !.backend = "openai",
                            !.ok = openaiTranslate(call.response).ok,
                            !.value = openaiTranslate(call.response).value]
    /\ UNCHANGED <<pvars, rvars, now, baidu>>

\* the request of OllamaTranslator.translate settles
OllamaTranslate ==
    /\ call.pc = "request"
    /\ call' = [call EXCEPT !.pc = "done", !.backend = "ollama",
                            !.ok = ollamaTranslate(call.response).ok,
                            !.value = ollamaTranslate(call.response).value]
    /\ UNCHANGED <<pvars, rvars, now, baidu>>

\* the request of BaiduTranslator.translate settles
BaiduRespond ==
    /\ call.pc = "request"
    /\ call' = [call EXCEPT !.pc = "done", !.backend = "baidu",
                            !.ok = baiduTranslate(call.response).ok,
                            !.value = baiduTranslate(call.response).value]
    /\ UNCHANGED <<pvars, rvars, now, baidu>>

\* the timer of MockTranslator.translate fires
MockTranslate ==
    /\ call.pc = "timer"
    /\ call' = [call EXCEPT !.pc = "done", !.backend = "mock",
                            !.ok = mockTranslate(call.text).ok,
                            !.value = mockTranslate(call.text).value]
    /\ UNCHANGED <<pvars, rvars, now, baidu>>

\* the translation returned is formatted for the cell
Format(mode) ==
    /\ call.pc = "done"
    /\ call.ok
    /\ call' = [call EXCEPT !.pc = "formatted", !.mode = mode,
                            !.formatted = formatTranslation(call.text, call.value, mode)]
    /\ UNCHANGED <<pvars, rvars, now, baidu>>

NextChat ==
    \/ OpenAITranslate
    \/ OllamaTranslate
    \/ BaiduRespond
    \/ MockTranslate
    \/ \E mode \in Modes : Format(mode)

SpecChat == InitChat /\ [][NextChat]_vars

----------------------------------------------------------------------------
(* Properties                                                              *)

Listed == Names(getProfiles(World))

ListedRecords == {getProfiles(World)[i] : i \in 1..Len(getProfiles(World))}

\* the secret a profile argument carries inline
Carried(p) == IF Truthy(p.apiKey) THEN p.apiKey ELSE p.secretKey

\* a Switch Profile flow started with the pointer at an existing profile
SwitchFrom(f) ==
    /\ flow[f].kind = "switch"
    /\ flow[f].from # ""
    /\ flow[f].from = flow[f].fromProfile

\* C1: a Switch Profile flow started with the pointer at an existing profile A
\* and the pick of another profile B probes B; when it ends the pointer is A
\* again (and A is what the rollback reports) if the probe failed, and B if the
\* probe succeeded.
C1_SwitchWithVerification ==
    \A f \in Flows :
        SwitchFrom(f) =>
            /\ flow[f].step \in {"testing", "tested", "done"} =>
                   flow[f].tested.name = flow[f].target
            /\ (flow[f].step = "done" /\ flow[f].success = "false") =>
                   /\ settings.activeProfile = flow[f].from
                   /\ getActiveProfileName(World) = flow[f].from
                   /\ flow[f].rolledBackTo = flow[f].from
            /\ (flow[f].step = "done" /\ flow[f].success = "true") =>
                   /\ settings.activeProfile = flow[f].target
                   /\ getActiveProfileName(World) = flow[f].target

C1_Witness ==
    \E f \in Flows :
        /\ SwitchFrom(f)
        /\ flow[f].step = "done"
        /\ flow[f].success = "false"
        /\ flow[f].target # flow[f].from
        /\ settings.activeProfile = flow[f].from

\* C2: with profiles A and B listed and the pointer at A, setActiveProfile(B)
\* followed by rollbackToPrevious() leaves the pointer at A and returns A.
C2_SetActiveThenRollback ==
    (last.op = "rollbackToPrevious" /\ last.switched # NoSwitch) =>
        /\ last.result = last.switched.from
        /\ settings.activeProfile = last.switched.from
        /\ getActiveProfileName(World) = last.switched.from

C2_Witness ==
    /\ last.op = "rollbackToPrevious"
    /\ last.switched # NoSwitch
    /\ last.switched.to # last.switched.from
    /\ last.active = last.switched.to
    /\ last.result = last.switched.from

\* C3: once the manager exists, in every state (after any calls, failed ones
\* included) getActiveProfile() returns a profile, and that profile is an
\* element of what getProfiles() returns in the same state.
C3_ActiveProfileListed ==
    phase \in {"constructed", "ready"} =>
        /\ Len(getProfiles(World)) > 0
        /\ getActiveProfile(World) # NoProfile
        /\ getActiveProfile(World) \in ListedRecords

\* the pointer is stale after a successful deleteProfile, and the fallback answers
C3_Witness ==
    /\ last.op = "deleteProfile"
    /\ last.ok
    /\ getActiveProfileName(World) # ""
    /\ getActiveProfileName(World) \notin Listed
    /\ getActiveProfile(World) = getProfiles(World)[1]

\* the operations of the profile manager that C4 names
ManagerOps == {"addProfile", "updateProfile", "deleteProfile", "setActiveProfile",
               "rollbackToPrevious"}

\* C4: in every state a profile-manager operation has returned into, the stored
\* active-profile name is unset (cleared) or is the name of a stored profile
\* (a listed one, where the built-in placeholder stands for an empty store).
C4_ActivePointerValid ==
    (last.op \in ManagerOps /\ last.ok) =>
        \/ settings.activeProfile = ""
        \/ settings.activeProfile \in Names(settings.profiles)
        \/ settings.activeProfile \in Listed

\* the record listed under the name n
ListedAs(n) == Find(getProfiles(World), n)

\* C5 as claimed: after addProfile(p) has succeeded for a p carrying an inline
\* secret, the listed record for p.name has no secret field and getApiKey(p.name)
\* returns the secret p carried.
C5_SecretIsolation ==
    (last.op = "addProfile" /\ last.ok /\ HasSecretMaterial(last.arg)) =>
        /\ last.name \in Listed
        /\ ~HasSecretField(ListedAs(last.name))
        /\ getApiKey(World, last.name) = Carried(last.arg)

\* C5: a successful addProfile(p) of a p carrying an inline secret lists a record
\* for p.name without a secret field and leaves the secure store as it was:
\* storing the secret is the caller's separate setApiKey call.
C5_AddProfileStripsSecret ==
    [][(last'.op = "addProfile" /\ last'.ok /\ HasSecretMaterial(last'.arg)) =>
          /\ last'.name \in Names(config'.profiles)
          /\ ~HasSecretField(Find(config'.profiles, last'.name))
          /\ ~HasSecretField(Find(settings'.profiles, last'.name))
          /\ secrets' = secrets]_vars

C5_Witness ==
    /\ last.op = "addProfile"
    /\ last.ok
    /\ HasSecretMaterial(last.arg)
    /\ last.name \in Listed
    /\ ~HasSecretField(ListedAs(last.name))
    /\ getApiKey(World, last.name) = Absent

\* C6: in every reachable state, startup included, no record of a durable
\* profile list the program has written contains a non-empty apiKey or secretKey.
C6_NoSecretPersisted ==
    written => \A i \in 1..Len(settings.profiles) : ~HasSecretMaterial(settings.profiles[i])

\* C7, for the profiles a user made: after deleteProfile(name) has succeeded no
\* profile named name is listed, getApiKey(name) is absent, and if name was the
\* active profile and a profile remains the pointer names the first remaining one.
C7_DeleteProfile ==
    (last.op = "deleteProfile" /\ last.ok /\ last.name # MockName) =>
        /\ last.name \notin Listed
        /\ getApiKey(World, last.name) = Absent
        /\ (last.active = last.name /\ Len(settings.profiles) > 0) =>
               settings.activeProfile = settings.profiles[1].name

\* C8: an Add New Profile flow whose probe failed ends with the new profile not
\* listed, its secret absent, and the profile active that was active when the
\* flow started.
C8_AddFailureRestores ==
    \A f \in Flows :
        (flow[f].kind = "add" /\ flow[f].step = "done" /\ flow[f].success = "false") =>
            /\ flow[f].target \notin Listed
            /\ getApiKey(World, flow[f].target) = Absent
            /\ getActiveProfile(World).name = flow[f].fromProfile

\* the pointer after a call is the same in the durable settings and in the snapshot
PointerIs(n) == settings.activeProfile = n /\ getActiveProfileName(World) = n

\* C9 as claimed: rollbackToPrevious() activates and returns the marked profile
\* when the marker names a listed one; otherwise, when any profile is listed, it
\* activates and returns the first; otherwise it changes nothing and returns null.
C9_ThreeOutcomes ==
    last.op = "rollbackToPrevious" =>
        IF last.previous # "" /\ last.previous \in Listed
        THEN last.result = last.previous /\ PointerIs(last.previous)
        ELSE IF Len(getProfiles(World)) > 0
        THEN /\ last.result = getProfiles(World)[1].name
             /\ PointerIs(getProfiles(World)[1].name)
        ELSE /\ last.result = Null
             /\ PointerIs(last.active)
             /\ previousProfileName = last.previous

\* C9: rollbackToPrevious() activates and returns the marked profile when the
\* marker names a listed one; otherwise, when the first listed profile is not
\* the stored active name already, it activates and returns the first;
\* otherwise it changes neither pointer nor marker and returns null.
C9_RollbackOutcomes ==
    last.op = "rollbackToPrevious" =>
        IF last.previous # "" /\ last.previous \in Listed
        THEN last.result = last.previous /\ PointerIs(last.previous)
        ELSE IF Len(getProfiles(World)) > 0 /\ getProfiles(World)[1].name # last.active
        THEN /\ last.result = getProfiles(World)[1].name
             /\ PointerIs(getProfiles(World)[1].name)
        ELSE /\ last.result = Null
             /\ PointerIs(last.active)
             /\ previousProfileName = last.previous

\* no valid marker, and the first listed profile is the stored active name
C9_Witness ==
    /\ last.op = "rollbackToPrevious"
    /\ last.result = Null
    /\ ~(last.previous # "" /\ last.previous \in Listed)
    /\ Len(getProfiles(World)) > 0
    /\ getProfiles(World)[1].name = last.active

\* the name of the profile getActiveProfile() returned before the last call
\* (setActiveProfile leaves the listed names as they were)
ActiveBefore ==
    IF last.active # "" /\ last.active \in Listed THEN last.active
    ELSE getProfiles(World)[1].name

\* C10 as claimed, with the pointer unset or at a listed profile before the call:
\* setActiveProfile(name) sets the marker to the profile that was active before
\* the call (the first-profile fallback when the pointer was unset) when that is
\* not name, and leaves it unchanged when it is name.
C10_MarkerFollowsActiveProfile ==
    (last.op = "setActiveProfile" /\ (last.active = "" \/ last.active \in Listed)) =>
        previousProfileName =
            IF ActiveBefore # last.name THEN ActiveBefore ELSE last.previous

\* C10: setActiveProfile(name) sets the marker to the stored active name when
\* that is non-empty and differs from name, leaves the marker unchanged
\* otherwise (pointer unset, or name already), and sets the pointer to name.
C10_MarkerFollowsPointer ==
    last.op = "setActiveProfile" =>
        /\ previousProfileName =
               IF last.active # "" /\ last.active # last.name THEN last.active
               ELSE last.previous
        /\ PointerIs(last.name)

\* the pointer was unset and the fallback profile was another than name
C10_Witness ==
    /\ last.op = "setActiveProfile"
    /\ last.active = ""
    /\ ActiveBefore # last.name
    /\ previousProfileName = last.previous
    /\ PointerIs(last.name)

\* the stored records that carry an inline secret
Inline(ps) == {i \in 1..Len(ps) : HasSecretMaterial(ps[i])}

\* C11: migrateLegacyKeys() does not write the profile list while it loops, and
\* the step that ends it leaves, for every stored profile that carried an inline
\* secret, that secret readable with getApiKey(name) and the durable record
\* (same name, same place) without a secret field; the list is written in that
\* one step, and only when a profile carried a secret.
C11_LegacyKeysMigrated ==
    [][/\ (mig.pc = "loop" /\ mig'.pc = "loop") => settings'.profiles = settings.profiles
       /\ (mig.pc = "loop" /\ mig'.pc = "done") =>
             /\ NameSeq(settings'.profiles) = NameSeq(settings.profiles)
             /\ \A i \in Inline(settings.profiles) :
                   /\ secrets'[settings.profiles[i].name] = Carried(settings.profiles[i])
                   /\ ~HasSecretField(settings'.profiles[i])
             /\ Inline(settings'.profiles) = {}
             /\ (Inline(settings.profiles) = {}) => settings'.profiles = settings.profiles
             /\ secrets' = secrets]_vars

\* the migration has finished, having moved a secret
C11_Witness ==
    /\ mig.pc = "done"
    /\ mig.hasChanges
    /\ ops = 0
    /\ written
    /\ Inline(settings.profiles) = {}
    /\ \E n \in Names(settings.profiles) : getApiKey(World, n) = LegacyKey

\* what a failed call must leave alone: the durable list and pointer, the
\* secure store and the marker (and the manager's snapshot)
Untouched ==
    /\ settings' = settings
    /\ secrets' = secrets
    /\ previousProfileName' = previousProfileName
    /\ config' = config
    /\ DEFAULT_PROFILES' = DEFAULT_PROFILES

\* C12: an addProfile(p) made while a profile named p.name is listed fails, and
\* leaves the durable profile list, the secure store, the active pointer and the
\* previous marker unchanged.
C12_DuplicateNameRejected ==
    [][(last'.op = "addProfile" /\ last'.name \in Listed) =>
          (~last'.ok /\ Untouched)]_vars

\* a refused addProfile of a stored name, carrying a secret
C12_Witness ==
    /\ last.op = "addProfile"
    /\ ~last.ok
    /\ last.name \in Names(settings.profiles)
    /\ HasSecretMaterial(last.arg)
    /\ getApiKey(World, last.name) # Carried(last.arg)

\* C13: an updateProfile(name, fields) or deleteProfile(name) made while no
\* profile named name is in the durable profile list (the placeholder listed for
\* an empty list included) fails, and leaves the durable profile list, the
\* secure store, the active pointer and the previous marker unchanged.
C13_NotFoundRejected ==
    [][(/\ last'.op \in {"updateProfile", "deleteProfile"}
        /\ phase = "ready"
        /\ last'.name \notin Names(settings.profiles)) =>
          (~last'.ok /\ Untouched)]_vars

\* C14, by names: getProfiles() lists the names of the durable profile list in
\* stored order when that list is non-empty, and the placeholder alone when it
\* is empty.
C14_ListsStoredOrPlaceholder ==
    (phase = "ready" /\ last.op \in ManagerOps /\ last.ok) =>
        NameSeq(getProfiles(World)) =
            IF Len(settings.profiles) > 0 THEN NameSeq(settings.profiles)
            ELSE <<MockName>>

\* C15: no two profiles of the durable list have the same name.
C15_NamesUnique ==
    \A i, j \in 1..Len(settings.profiles) :
        settings.profiles[i].name = settings.profiles[j].name => i = j

\* the loop is about to take up the unit at run.i
AtUnit == run.pc = "loop" /\ run.i <= Len(cells)

\* a step in which the loop takes up the unit at run.i, no cancellation requested
TakesUnit == AtUnit /\ ~run.cancel /\ ~run'.cancel

Counters(r) == <<r.translatedCount, r.skippedCount, r.cachedCount>>

\* the cache holds an entry for the text
Holds(c, text) == computeHash(text) \in DOMAIN c

\* C16: for a unit that is not skipped, with an entry for its text in the cache
\* the backend is not invoked, the stored translation is used and only the
\* cache-hit counter goes up; without one the backend is invoked once, and its
\* result is in the cache, in memory and durably, before the next unit is taken up.
C16_CacheBeforeBackend ==
    [][/\ (TakesUnit /\ ~skips(cells[run.i]) /\ Holds(cache, cells[run.i])) =>
             /\ run'.pc = "edit"
             /\ run'.sent = run.sent
             /\ run'.translatedText = get(cache, cells[run.i])
             /\ Counters(run') = <<run.translatedCount, run.skippedCount, run.cachedCount + 1>>
       /\ (TakesUnit /\ ~skips(cells[run.i]) /\ ~Holds(cache, cells[run.i])) =>
             /\ run'.pc = "call"
             /\ run'.sent = run.sent + 1
       /\ (run.pc = "call" /\ run'.unit = "translated") =>
             /\ run'.i = run.i
             /\ get(cache', cells[run.i]) = run'.translatedText
             /\ get(workspaceState', cells[run.i]) = run'.translatedText]_vars

\* the text has a code unit in lo..hi
HasCodeUnitIn(text, lo, hi) == \E i \in 1..Len(text) : text[i] >= lo /\ text[i] <= hi

\* the unit at run.i is passed over: not sent, not modified, skipped counter + 1
Skipped ==
    /\ run'.unit = "skipped"
    /\ run'.pc = "loop"
    /\ run'.i = run.i + 1
    /\ run'.sent = run.sent
    /\ Counters(run') = <<run.translatedCount, run.skippedCount + 1, run.cachedCount>>
    /\ cells' = cells
    /\ cache' = cache
    /\ workspaceState' = workspaceState

\* C17 as claimed: a unit whose text has a character of the CJK Unified
\* Ideographs block, U+4E00 to U+9FFF, or is empty or whitespace-only, is not
\* sent to the backend and not modified, and adds 1 to the skipped counter.
C17_SkipRuleBlock ==
    [][(/\ TakesUnit
        /\ \/ HasCodeUnitIn(cells[run.i], CJKFirst, 40959)
           \/ Len(trim(cells[run.i])) = 0) => Skipped]_vars

\* C17: a unit whose text has a character in U+4E00 to U+9FA5, or is empty or
\* whitespace-only, is not sent to the backend and not modified, and adds 1 to
\* the skipped counter.
C17_SkipRule ==
    [][(/\ TakesUnit
        /\ \/ HasCodeUnitIn(cells[run.i], CJKFirst, CJKLast)
           \/ Len(trim(cells[run.i])) = 0) => Skipped]_vars

\* the unit "你好" has just been skipped
C17_Witness ==
    /\ run.unit = "skipped"
    /\ run.i = 2
    /\ cells[1] = NiHao
    /\ run.skippedCount = 1
    /\ run.sent = 0

\* C18: when the backend call of a unit fails, the failure is reported, cells
\* and cache stay as they are, no counter changes and the loop goes on with the
\* next unit; a unit the loop takes up without cancellation is processed
\* whatever failed before it.
C18_FailureDoesNotAbort ==
    [][/\ (run.pc = "call" /\ run'.unit = "failed") =>
             /\ run'.reported = run.reported + 1
             /\ cells' = cells
             /\ cache' = cache
             /\ workspaceState' = workspaceState
             /\ Counters(run') = Counters(run)
             /\ run'.pc = "loop"
             /\ run'.i = run.i + 1
       /\ (run.pc = "call" /\ run'.pc # "call") => run'.unit \in {"failed", "translated"}
       /\ TakesUnit => run'.unit \in {"skipped", "hit", "sent"}]_vars

\* the unit after a failed one has been sent to the backend
C18_Witness ==
    /\ run.reported = 1
    /\ run.i = 2
    /\ run.unit = "sent"
    /\ run.pc = "call"

\* C19: the token is looked at when the loop takes up a unit, and a requested
\* cancellation ends the run there with nothing else changed; a backend call or
\* an edit in flight when cancellation is requested completes as it would
\* otherwise; a cancelled run has handled exactly the units before the one it
\* stopped at, and does nothing more.
C19_CooperativeCancellation ==
    [][/\ (AtUnit /\ run.cancel) =>
             /\ run' = [run EXCEPT !.pc = "cancelled", !.unit = "cancelled"]
             /\ cells' = cells
             /\ cache' = cache
             /\ workspaceState' = workspaceState
       /\ (run.pc \in {"call", "edit"} /\ run.cancel) =>
             /\ run'.pc # "cancelled"
             /\ run'.unit \in {"translated", "failed", "edited", "refused"}
             /\ run'.unit = "translated" =>
                    /\ get(cache', cells[run.i]) = run'.translatedText
                    /\ get(workspaceState', cells[run.i]) = run'.translatedText
                    /\ run'.pc = "edit"
             /\ run'.unit = "edited" =>
                    cells'[run.i] =
                        formatTranslation(cells[run.i], run.translatedText, run.mode)
       /\ run'.pc = "cancelled" =>
             /\ run'.cancel
             /\ run'.translatedCount + run'.skippedCount + run'.cachedCount
                    + run'.reported = run'.i - 1
             /\ run'.sent = run'.translatedCount + run'.reported
       /\ (run.pc = "cancelled" /\ run'.n = run.n) =>
             /\ cells' = cells
             /\ cache' = cache
             /\ workspaceState' = workspaceState]_vars

\* cancellation was requested while the call was in flight, and the call completed
C19_Witness ==
    /\ run.pc = "edit"
    /\ run.cancel
    /\ run.unit = "translated"
    /\ get(cache, cells[run.i]) = run.translatedText

AllTexts == CellTexts \cup CacheTexts

\* C20: get(t) returns r right after put(t, r); the result of get(t) changes
\* only with a put of a text of the same hash or with clear(); a cache
\* constructed over the durable store answers every get as the one before it.
C20_CacheCorrect ==
    [][/\ cop'.op = "put" => get(cache', cop'.text) = cop'.value
       /\ cache' # cache =>
             \A t \in AllTexts :
                 get(cache', t) # get(cache, t) =>
                     \/ cop'.op = "put" /\ computeHash(cop'.text) = computeHash(t)
                     \/ cop'.op = "clear"
       /\ cop'.op = "construct" => cache' = workspaceState]_vars

\* "ab" has been put, and the entry of "Hi" is as before
C20_Witness ==
    /\ cop.op = "put"
    /\ cop.text = Ab
    /\ get(cache, Ab) = cop.value
    /\ get(cache, Hi) = NiHao
    /\ get(workspaceState, Ab) = cop.value

\* C21: the number of entries of the cache, in memory and in the durable store,
\* goes down in no step but clear(); clear() leaves none, and after it get
\* answers undefined for every text from the cache and from the durable store.
C21_NoEviction ==
    [][/\ cop'.op # "clear" =>
             /\ size(cache') >= size(cache)
             /\ size(workspaceState') >= size(workspaceState)
             /\ cache' # cache => \A t \in AllTexts : Holds(cache, t) => Holds(cache', t)
       /\ cop'.op = "clear" =>
             /\ size(cache') = 0
             /\ size(workspaceState') = 0
             /\ \A t \in AllTexts :
                    get(cache', t) = Undefined /\ get(workspaceState', t) = Undefined]_vars

\* a second entry has been put next to the one of an earlier session
C21_Witness ==
    /\ cop.op = "put"
    /\ size(cache) = 2
    /\ size(workspaceState) = 2
    /\ Holds(cache, Hi)
    /\ get(cache, cop.text) = cop.value

\* C22: on one instance, each request follows the one before it by at least
\* minInterval; a call made sooner sleeps until lastRequestTime + minInterval;
\* a step of one instance leaves the limiter of the other as it is.
C22_RateLimit ==
    [][\A i \in Instances :
          /\ \A k \in 2..Len(baidu'[i].issued) :
                 baidu'[i].issued[k] - baidu'[i].issued[k - 1] >= minInterval
          /\ (baidu[i].pc = "idle" /\ baidu'[i].pc = "sleep") =>
                 /\ baidu'[i].wake = baidu[i].lastRequestTime + minInterval
                 /\ baidu'[i].wake > now
          /\ (baidu[i].pc = "sleep" /\ baidu'[i].pc = "request") =>
                 now >= baidu[i].wake
          /\ (baidu[i].pc = "idle" /\ baidu'[i].pc = "request") =>
                 now - baidu[i].lastRequestTime >= minInterval
          /\ baidu'[i].lastRequestTime # baidu[i].lastRequestTime =>
                 \A j \in Instances \ {i} : baidu'[j] = baidu[j]]_vars

\* the second call on instance 1 slept to the end of the interval before its
\* request, while instance 2 sent a request in between
C22_Witness ==
    /\ Len(baidu[1].issued) = 2
    /\ baidu[1].wake = baidu[1].issued[1] + minInterval
    /\ baidu[1].issued[2] >= baidu[1].wake
    /\ Len(baidu[2].issued) >= 1
    /\ baidu[2].issued[1] > baidu[1].issued[1]
    /\ baidu[2].issued[1] < baidu[1].issued[2]

\* C23: the cleaned content a chat backend returns is left as it is by
\* cleaning it again, and has no complete segment in it.
C23_CleanIdempotent ==
    (call.pc = "done" /\ call.ok /\ TruthyText(call.response.content)) =>
        /\ call.value = cleanThinkTags(call.response.content)
        /\ cleanThinkTags(call.value) = call.value
        /\ ~HasSegment(call.value)

\* the call of a chat backend has settled on a reply with this content
Replied(content) ==
    /\ call.pc = "done"
    /\ call.backend \in {"openai", "ollama"}
    /\ call.response = Response("reply", content, <<>>)

\* C24 as claimed: a chat backend whose reply has non-empty content that
\* cleans to the empty string fails.
C24_ReasoningOnlyFails ==
    (/\ Replied(call.response.content)
     /\ TruthyText(call.response.content)
     /\ cleanThinkTags(call.response.content) = <<>>) => ~call.ok

\* C24: a chat backend whose reply has content that is not blank and cleans
\* to the empty string fails, with the reasoning-only message, and returns no
\* translation.
C24_ReasoningOnlyFailsNonBlank ==
    (/\ Replied(call.response.content)
     /\ TruthyText(call.response.content)
     /\ Len(trim(call.response.content)) > 0
     /\ cleanThinkTags(call.response.content) = <<>>) =>
        /\ ~call.ok
        /\ includes(call.value, ReasoningOnly)

\* the local backend has failed on a reply that is one reasoning segment
C24_Witness ==
    /\ Replied(<<60, 84, 104, 105, 110, 107, 62, 10, 60, 47, 84, 72, 73, 78, 75, 62>>)
    /\ call.backend = "ollama"
    /\ ~call.ok

\* C25: when the active profile is for the chat-completion or the signed-query
\* service and its secret is not in the secure store, building the translator
\* fails with MissingApiKeyError: Translate Notebook ends with no request sent
\* and cells and cache as they were, and the connection test returns false;
\* a translator for the local service is built without a secret.
C25_MissingCredential ==
    [][LET w == refresh(World)
           activeProfile == getActiveProfile(w)
           starts == run'.n = run.n + 1 /\ run'.unit \in {"started", "probed"}
       IN /\ (starts /\ activeProfile.provider \in {"openai", "baidu"}
                  /\ ~Truthy(secrets[activeProfile.name])) =>
                 /\ run'.profile = activeProfile.name
                 /\ run'.error = "MissingApiKeyError"
                 /\ run'.translator = "none"
                 /\ run'.unit = "probed" => run'.probe = "false"
                 /\ run'.unit = "started" => (run'.pc = "failed" /\ run'.sent = 0)
                 /\ cells' = cells
                 /\ cache' = cache
                 /\ workspaceState' = workspaceState
          /\ (starts /\ activeProfile.provider = "ollama") =>
                 /\ run'.error = "none"
                 /\ run'.translator = "OllamaTranslator"
                 /\ run'.unit = "started" => run'.pc = "loop"
          /\ (run'.unit = "started" /\ run'.pc = "failed") => run'.error # "none"
          /\ (run.pc = "failed" /\ run'.n = run.n) => UNCHANGED vars]_vars

\* Translate Notebook has ended on the missing secret of the signed-query profile
C25_Witness ==
    /\ run.pc = "failed"
    /\ run.profile = "B"
    /\ run.error = "MissingApiKeyError"
    /\ ~Truthy(secrets["B"])
    /\ run.sent = 0

\* the call of the local backend has failed with this message
OllamaFailed(message) ==
    call.pc = "done" /\ call.backend = "ollama" /\ ~call.ok /\ call.value = message

\* C26: the local backend answers a refused connection with the guidance to
\* start the server at its endpoint, a model that is not found with the
\* guidance to pull that model, and a response that cannot be parsed, has
\* another shape or is reasoning only with the generic translation-failed
\* message and neither guidance.
C26_OllamaFailureMessages ==
    (call.pc = "done" /\ call.backend = "ollama") =>
        /\ call.response = Response("socket", <<>>, Refused) =>
               OllamaFailed(StartServerHead \o Endpoint \o StartServerTail)
        /\ (call.response.kind \in {"http", "error"} /\ call.response.message = ModelMissing) =>
               OllamaFailed(FetchModelHead \o Model \o FetchModelMid \o Model \o FetchModelTail)
        /\ (\/ call.response.kind \in {"unparsable", "other"}
            \/ call.response.kind = "reply" /\ ~call.ok) =>
               /\ OllamaFailed(FanYiShiBai \o ollamaTry(call.response).value)
               /\ ~includes(call.value, StartServerHead)
               /\ ~includes(call.value, FetchModelMid)

\* the call of the signed-query backend has failed with this message
BaiduFailed(message) ==
    call.pc = "done" /\ call.backend = "baidu" /\ ~call.ok /\ call.value = message

\* C27: a response of the signed-query service with an error_code makes
\* translate fail: with the message of the table for each of its twelve codes,
\* no two of them the same and the one of 54001 naming the signature error,
\* with the unknown-error message holding the code for any other code; a
\* response with neither an error_code nor a non-empty trans_result fails too.
C27_BaiduErrorMapping ==
    /\ (call.pc = "done" /\ call.backend = "baidu" /\ call.response.kind = "code") =>
          LET code == call.response.message
          IN /\ ~call.ok
             /\ \A k \in 1..Len(errorMessages) :
                    code = errorMessages[k][1] =>
                        /\ BaiduFailed(FanYiShiBai \o BaiduApiError \o errorMessages[k][2])
                        /\ \A j \in 1..Len(errorMessages) :
                               j # k => ~includes(call.value, errorMessages[j][2])
             /\ code = <<53, 52, 48, 48, 49>> => includes(call.value, SignError)
             /\ code \notin KnownCodes =>
                    BaiduFailed(FanYiShiBai \o BaiduApiError \o UnknownHead \o code \o UnknownTail)
    /\ (call.pc = "done" /\ call.backend = "baidu" /\ call.response.kind = "empty") =>
          ~call.ok
    /\ Len(errorMessages) = 12
    /\ Cardinality(KnownCodes) = 12

\* the signed-query backend has failed on error_code 54001
C27_Witness ==
    /\ call.pc = "done"
    /\ call.backend = "baidu"
    /\ call.response.kind = "code"
    /\ call.response.message = <<53, 52, 48, 48, 49>>
    /\ ~call.ok
    /\ includes(call.value, SignError)

\* C28: formatting gives the translation itself in replace mode and, in
\* bilingual mode, the comment block holding the original text, a blank line
\* and the translation; the mock translator never fails and returns the marker
\* line followed by its input, so "Hello world" comes out as
\* "[模拟翻译]\nHello world" in replace mode and after the comment block of
\* "Hello world" in bilingual mode.
C28_MockAndFormat ==
    /\ call.pc = "formatted" =>
          /\ call.mode = "replace" => call.formatted = call.value
          /\ call.mode = "bilingual" =>
                 call.formatted = CommentOpen \o call.text \o CommentClose \o call.value
    /\ (call.backend = "mock" /\ call.pc \in {"done", "formatted"}) =>
          /\ call.ok
          /\ call.value = MockMarker \o <<10>> \o call.text
    /\ (call.backend = "mock" /\ call.pc = "formatted" /\ call.text = HelloWorld) =>
          /\ call.mode = "replace" =>
                 call.formatted =
                     <<91, 27169, 25311, 32763, 35793, 93, 10, 72, 101, 108,
                     108, 111, 32, 119, 111, 114, 108, 100>>
          /\ call.mode = "bilingual" =>
                 call.formatted =
                     <<60, 33, 45, 45, 32, 79, 114, 105, 103, 105, 110, 97,
                     108, 32, 69, 110, 103, 108, 105, 115, 104, 58, 10, 72,
                     101, 108, 108, 111, 32, 119, 111, 114, 108, 100, 10, 45,
                     45, 62, 10, 10, 91, 27169, 25311, 32763, 35793, 93, 10,
                     72, 101, 108, 108, 111, 32, 119, 111, 114, 108, 100>>

\* "Hello world" has gone through the mock translator and the bilingual format
C28_Witness ==
    /\ call.pc = "formatted"
    /\ call.backend = "mock"
    /\ call.text = HelloWorld
    /\ call.mode = "bilingual"
    /\ Len(call.formatted) = Len(CommentOpen) + Len(CommentClose) + 2 * Len(HelloWorld)
                               + Len(MockMarker) + 1

\* a step of the loop that looks a unit up in the cache
looksUp ==
    /\ run.pc = "loop"
    /\ run' # run
    /\ run'.cancel = run.cancel
    /\ run.i <= Len(cells)
    /\ ~isCancellationRequested(run)
    /\ ~skips(cells[run.i])

activeName == getActiveProfile(World).name

\* a step in which a Manage Profiles action ends: a switch or an add after its
\* connection test, or a delete that took the active profile away
actionEnds ==
    \/ \E f \in Flows : flow[f].step = "tested" /\ flow'[f].step = "done"
    \/ /\ last' = NoCall
       /\ \A f \in Flows : flow[f].step # "tested"
       /\ Len(getProfiles(World)') < Len(getProfiles(World))
       /\ getActiveProfileName(World) \notin Names(getProfiles(World)')

\* C30: when a Manage Profiles action ends (a switch, committed or rolled back,
\* an add, a delete of the active profile), the status bar shows the name of
\* the active profile, so the error state is shown for the active profile only
C30_StatusBarShowsActive ==
    [][actionEnds => statusBar'.profileName = activeName']_vars

\* the step in which activate() gets past validateActiveProfile()
activated == phase = "constructed" /\ phase' = "ready"

\* C31: when activation has finished, the stored active-profile name is empty
\* or the name of a profile getProfiles() returns; a stored name that matches
\* no profile has been replaced by the name of the first profile of the list,
\* and a name that is empty or listed is left as it was
C31_StartupValidation ==
    [][activated =>
         LET before == refresh(World)
             stored == settings.activeProfile
             listed == Names(getProfiles(before))
         IN /\ settings'.activeProfile \in {""} \cup Names(getProfiles(World'))
            /\ config'.activeProfile = settings'.activeProfile
            /\ (stored # "" /\ stored \notin listed)
                  => settings'.activeProfile = getProfiles(before)[1].name
            /\ (stored = "" \/ stored \in listed)
                  => settings'.activeProfile = stored]_vars

\* activation has ended on the only stored profile, with a pointer that was stale
C31_Witness ==
    /\ phase = "ready"
    /\ ops = 0
    /\ Names(settings.profiles) = {"A"}
    /\ settings.activeProfile = "A"
    /\ previousProfileName = "B"
    /\ statusBar = update("A", "ready")

\* a step of a run that has started and not ended, the run's own or a command's
\* that arrives meanwhile
duringRun == run.pc \in {"loop", "call", "edit"} /\ run'.pc # "idle"

\* C32: a run builds its translator once, from the profile that is active when
\* it starts; a switch or a rollback while the run is in progress changes
\* neither: every later call of the run goes to the translator built at the
\* start, and every log entry carries the name of the profile of the start
C32_BackendFixedAtStart ==
    [][/\ (run'.n = run.n + 1 /\ run'.unit = "started")
            => /\ run'.profile = getActiveProfile(refresh(World)).name
               /\ run'.pc = "loop"
                    => run'.translator =
                          TranslatorOf(getActiveProfile(refresh(World)).provider)
       /\ duringRun
            => /\ run'.profile = run.profile
               /\ run'.translator = run.translator
       /\ (run.pc = "loop" /\ run'.pc = "call") => run'.calledOn = run.translator
       /\ (run.pc = "call" /\ run'.unit = "translated" /\ run'.pc = "edit")
            => run'.loggedAs = run.profile]_vars

\* a unit has been translated by the translator of A and logged under A after
\* the active profile had become C
C32_Witness ==
    /\ run.pc = "edit"
    /\ run.unit = "translated"
    /\ run.profile = "A"
    /\ run.calledOn = "OpenAITranslator"
    /\ run.loggedAs = "A"
    /\ run.probe = "true"
    /\ settings.activeProfile = "C"
    /\ previousProfileName = "A"

\* calls on the profile list made once the commands are registered, whether or
\* not the constructor's migrateLegacyKeys() has finished
NextMigrationRace ==
    \/ Startup
    \/ \E p \in AddArgs : CallAddProfile(p, FALSE)
    \/ \E n \in UserNames, u \in UpdateArgs : CallUpdateProfile(n, u, FALSE)
    \/ \E n \in AllNames : CallDeleteProfile(n, FALSE)

SpecMigrationRace == Init /\ [][NextMigrationRace]_vars

\* a record without its inline secrets
withoutSecrets(p) == [p EXCEPT !.apiKey = Absent, !.secretKey = Absent]

\* the step in which migrateLegacyKeys() ends, past its write if it makes one
migrationEnds == mig.pc = "loop" /\ mig'.pc = "done"

\* C33: the final write of the migration reverts no change made to the profile
\* list while the migration was in flight: the stored list after the
\* migration's last step has the records it had before that step, in the same
\* order, save for the inline secrets the migration strips
C33_MigrationKeepsChanges ==
    [][migrationEnds =>
         /\ Len(settings'.profiles) = Len(settings.profiles)
         /\ \A i \in 1..Len(settings.profiles) :
               withoutSecrets(settings'.profiles[i]) = withoutSecrets(settings.profiles[i])]_vars

\* C34: a rollback records a previous profile itself: after setActiveProfile(B)
\* made from the active profile A and a rollbackToPrevious() that has restored
\* A, the marker names B; a second rollbackToPrevious() right after it
\* activates B, returns B and leaves the marker at A
C34_RollbackAlternates ==
    /\ (last.op = "rollbackToPrevious" /\ last.switched # NoSwitch)
          => /\ last.result = last.switched.from
             /\ PointerIs(last.switched.from)
             /\ previousProfileName = last.switched.to
    /\ (last.op = "rollbackToPrevious" /\ last.undone # NoSwitch)
          => /\ last.result = last.undone.to
             /\ PointerIs(last.undone.to)
             /\ previousProfileName = last.undone.from

\* the second of two consecutive rollbacks has activated B again
C34_Witness ==
    /\ last.op = "rollbackToPrevious"
    /\ last.undone = [to |-> "B", from |-> "A"]
    /\ last.result = "B"
    /\ settings.activeProfile = "B"
    /\ previousProfileName = "A"

\* Switch Profile commands that may start while another one is in progress
NextOverlap ==
    \/ Startup
    \/ \E f \in Flows, n \in AllNames : SwitchSelect(f, n, FALSE)
    \/ \E f \in Flows : ProbeStart(f)
    \/ \E f \in Flows, answered \in BOOLEAN : ProbeEnd(f, answered)
    \/ \E f \in Flows : SwitchFinish(f)

SpecOverlap == Init /\ [][NextOverlap]_vars

\* both switches have ended; a started with no other in progress, b started
\* while the probe of a was pending
Overlapped(a, b) ==
    /\ a # b
    /\ flow[a].step = "done" /\ flow[a].kind = "switch" /\ flow[a].during = {}
    /\ flow[b].step = "done" /\ flow[b].kind = "switch" /\ flow[b].during = {"testing"}

\* C35: when a second Switch Profile starts while the probe of the first is
\* pending, each probe tests the profile its own command activated, and once
\* both have ended the active profile is one whose probe succeeded or the one
\* that was active before the first command started
C35_OverlappingSwitches ==
    \A a, b \in Flows :
        Overlapped(a, b) =>
            /\ flow[a].tested.name = flow[a].target
            /\ flow[b].tested.name = flow[b].target
            /\ \/ settings.activeProfile = flow[a].from
               \/ \E f \in {a, b} : /\ flow[f].success = "true"
                                    /\ settings.activeProfile = flow[f].target

----------------------------------------------------------------------------
(* the command run with a MockTranslator, twice over the same notebook     *)

\* how a run ended: "clean" when a MockTranslator run reached the completion
\* message with no unit failed and no edit refused, "plain" when in such a run
\* a cache hit brought a translation without a Chinese character
ended(r) ==
    IF r.pc = "idle" THEN "none"
    ELSE IF r.pc = "done" /\ r.translator = "MockTranslator"
                          /\ r.reported = 0 /\ r.refused = 0
    THEN IF r.plain = 0 THEN "clean" ELSE "plain"
    ELSE "other"

\* the command up to the loop, with the translator of createTranslator('mock')
\* and a TranslationCache over workspaceState
MockStart(mode) ==
    /\ RunOver
    /\ run.n < MaxRuns
    /\ Len(cells) > 0
    /\ run' = [RunIdle EXCEPT !.pc = "loop", !.mode = mode, !.n = run.n + 1,
                              !.profile = getActiveProfileName(World),
                              !.translator = "MockTranslator",
                              !.probe = run.probe, !.origin = run.origin,
                              !.unit = "started", !.prior = ended(run)]
    /\ cache' = workspaceState
    /\ cop' = [NoCacheOp EXCEPT !.op = "construct"]
    /\ UNCHANGED <<pvars, tvars, cells, workspaceState>>

\* MockTranslator.translate resolves, with the marker before the text
MockReturn ==
    /\ run.pc = "call"
    /\ run.translator = "MockTranslator"
    /\ BackendReturn(mockTranslate(cells[run.i]).value)

\* an earlier session, with another backend, may also have cached "ab" for "Hi"
InitMock == InitWith({<<>>, put(<<>>, Hi, NiHao), put(<<>>, Hi, Ab)})

NextMock ==
    \/ \E mode \in Modes : MockStart(mode)
    \/ LoopStep
    \/ MockReturn
    \/ \E success \in BOOLEAN : ApplyEdit(success)
    \/ Cancel

SpecMock == InitMock /\ [][NextMock]_vars

\* the step belongs to a run that skips every unit, sends nothing to the backend,
\* writes nothing to the cache and changes no cell
idles ==
    /\ run'.sent = 0 /\ run'.translatedCount = 0 /\ run'.cachedCount = 0
    /\ run'.pc \in {"loop", "done", "cancelled"}
    /\ run'.pc = "done" => run'.skippedCount = Len(cells)
    /\ cells' = cells
    /\ cache' = cache /\ workspaceState' = workspaceState /\ cop'.op # "put"

counted(r) == r.translatedCount + r.skippedCount + r.cachedCount

\* C37: during a run the translated, skipped and cache-hit counters never
\* decrease and each unit the loop processes increments at most one of them
\* (with the failed units they add up to the units processed so far); when the
\* run finishes without cancellation, translated + skipped + cache-hit is the
\* number of units minus the number of failed units, and translated is the
\* number of backend calls that succeeded.
C37_CounterAccounting ==
    [][/\ run.pc \in {"loop", "call", "edit"} =>
            /\ \A k \in 1..3 : Counters(run')[k] >= Counters(run)[k]
            /\ counted(run') - counted(run) <= 1
            /\ run'.i = run.i => counted(run') - counted(run) = 0 \/ run'.pc = "edit"
       /\ run'.pc \in {"loop", "call", "edit", "done", "cancelled"} =>
            counted(run') + run'.reported =
                (run'.i - 1) + (IF run'.pc = "edit" THEN 1 ELSE 0)
       /\ run'.pc = "done" =>
            /\ counted(run') = Len(cells') - run'.reported
            /\ run'.translatedCount = run'.sent - run'.reported]_vars

\* a run over two units finished: the backend call of one failed, the other
\* unit was translated
C37_Witness ==
    /\ run.pc = "done" /\ Len(cells) = 2
    /\ run.reported = 1 /\ run.translatedCount = 1 /\ run.sent = 2
    /\ run.skippedCount = 0 /\ run.cachedCount = 0
====
